---- MODULE Spec2Model ----
(***************************************************************************)
(* Model of the update-reconciliation core of the shift-accounting tool:   *)
(*   - ExcelUpdater (src/src/processors/excel_updater.py): validation and  *)
(*     application of update instructions to an openpyxl workbook, the     *)
(*     class-level lock, save/close/open;                                  *)
(*   - MainWindow (src/src/gui/main_window.py): the "process all files"    *)
(*     run, the worker completion handlers, the 500 ms polling timer and   *)
(*     the update worker.                                                  *)
(*                                                                         *)
(* Text.  Python strings are sequences of character codes (ord), so that   *)
(* strip(), endswith('号'), upper() and the base-26 column conversion are  *)
(* computed and not assumed.  Sheet names and dict keys are TLA+ strings;  *)
(* the three sheet names the code dispatches on are transliterated:        *)
(*   "TiaoJiaQian" = '调价前', "TiaoJiaHou" = '调价后',                    *)
(*   "YouPinYouHuiMingXi2" = '油品优惠明细 2'.                             *)
(* Amounts are integers (hundredths), so sums are exact.                   *)
(***************************************************************************)
EXTENDS Integers, Sequences, FiniteSets, TLC

(***************************************************************************)
(* Characters                                                              *)
(***************************************************************************)
chSpace == 32
chDigit0 == 48
chA == 65
chB == 66
chC == 67
chD == 68
chE == 69
chLowerA == 97
chLowerE == 101
chLowerZ == 122
chHao == 21495

\* Python values that appear in cells and in 'product_name': None, int, str.
None == [t |-> "none", i |-> 0, s |-> <<>>]
IntV(n) == [t |-> "int", i |-> n, s |-> <<>>]
StrV(str) == [t |-> "str", i |-> 0, s |-> str]

\* bool(value) is False for None, 0 and ''.
Falsy(v) == \/ v.t = "none"
            \/ (v.t = "int" /\ v.i = 0)
            \/ (v.t = "str" /\ v.s = <<>>)

IsSpace(c) == c \in {9, 10, 13, chSpace}

RECURSIVE lstrip(_)
lstrip(str) == IF str # <<>> /\ IsSpace(Head(str)) THEN lstrip(Tail(str)) ELSE str

RECURSIVE rstrip(_)
rstrip(str) ==
    IF str # <<>> /\ IsSpace(str[Len(str)])
    THEN rstrip(SubSeq(str, 1, Len(str) - 1))
    ELSE str

\* str.strip()
strip(str) == rstrip(lstrip(str))

\* str(n) for a non-negative int
RECURSIVE digits(_)
digits(n) == IF n < 10 THEN <<chDigit0 + n>>
             ELSE Append(digits(n \div 10), chDigit0 + (n % 10))

\* str(value)
str_of(v) == IF v.t = "int" THEN digits(v.i)
             ELSE IF v.t = "str" THEN v.s
             ELSE <<78, 111, 110, 101>>

\* one character of str.upper()
upper(c) == IF c >= chLowerA /\ c <= chLowerZ THEN c - 32 ELSE c

(***************************************************************************)
(* ExcelUpdater._get_column_index                                          *)
(***************************************************************************)
RECURSIVE column_fold(_, _, _)
column_fold(column, k, result) ==
    IF k > Len(column) THEN result
    ELSE column_fold(column, k + 1, result * 26 + (upper(column[k]) - chA + 1))

\* Variant: the one-based index, without the final `- 1`.
get_column_index_one_based(column) == column_fold(column, 1, 0)

get_column_index(column) == column_fold(column, 1, 0) - 1

(***************************************************************************)
(* ExcelUpdater._normalize_product_name                                    *)
(***************************************************************************)
normalize_product_name(name) ==
    IF Falsy(name) THEN <<>>
    ELSE LET name_str == strip(str_of(name))
         IN IF name_str # <<>> /\ name_str[Len(name_str)] = chHao
            THEN SubSeq(name_str, 1, Len(name_str) - 1)
            ELSE name_str

(***************************************************************************)
(* The openpyxl workbook.  A worksheet keeps its cells sparsely, keyed by  *)
(* (row, column); max_row and max_column bound what iter_rows yields.  A   *)
(* cell that is absent reads as None.                                      *)
(***************************************************************************)
Max(a, b) == IF a >= b THEN a ELSE b

CellValue(sheet, r, c) ==
    IF <<r, c>> \in DOMAIN sheet.cells THEN sheet.cells[<<r, c>>] ELSE None

\* sheet.cell(row=r, column=c).value = v
SetCell(sheet, r, c, v) ==
    [max_row |-> Max(sheet.max_row, r),
     max_column |-> Max(sheet.max_column, c),
     cells |-> IF v = None
               THEN [p \in DOMAIN sheet.cells \ {<<r, c>>} |-> sheet.cells[p]]
               ELSE [p \in DOMAIN sheet.cells \cup {<<r, c>>} |->
                        IF p = <<r, c>> THEN v ELSE sheet.cells[p]]]

\* iter_rows visits every row up to max_row.  A row with no cell in the
\* columns a scan reads (A and B) reads as None there, so it neither changes
\* the scan's state nor matches: the scans step from one row that has such a
\* cell to the next one.
Min(S) == CHOOSE x \in S : \A y \in S : x <= y

next_row(sheet, r, columns) ==
    LET rows == {p[1] : p \in {q \in DOMAIN sheet.cells :
                                  q[1] >= r /\ q[2] \in columns}}
    IN  IF rows = {} THEN sheet.max_row + 1 ELSE Min(rows)

SheetNames(wb) == {wb.sheetnames[k] : k \in 1..Len(wb.sheetnames)}

PriceSheets == {"TiaoJiaQian", "TiaoJiaHou"}
DateSheet == "YouPinYouHuiMingXi2"
Sections == {<<chA>>, <<chB>>, <<chC>>}

AccRow == 81
AccColumn == <<chE>>

(***************************************************************************)
(* ExcelUpdater._validate_update.  An update is a dict, here a record      *)
(* whose DOMAIN is the set of keys present.  TRUE when no ValueError is    *)
(* raised.                                                                 *)
(***************************************************************************)
HasKeys(u, keys) == keys \subseteq DOMAIN u

validate_update(wb, update) ==
    IF "sheet" \notin DOMAIN update THEN FALSE
    ELSE IF update.sheet \notin SheetNames(wb) THEN FALSE
    ELSE IF update.sheet \in PriceSheets
         THEN IF "product_name" \in DOMAIN update
              THEN HasKeys(update, {"column", "value"})
              ELSE IF "updates" \in DOMAIN update
                   THEN \A k \in 1..Len(update.updates) :
                            HasKeys(update.updates[k], {"row", "column", "value"})
                   ELSE FALSE
    ELSE IF update.sheet = DateSheet
         THEN /\ HasKeys(update, {"date", "updates"})
              /\ \A k \in 1..Len(update.updates) :
                     HasKeys(update.updates[k], {"column", "value"})
    ELSE TRUE

(***************************************************************************)
(* apply_updates, lines 141-164: the product-name (section) scan.          *)
(* iter_rows(min_row=3) yields rows 3..max_row as tuples of max_column     *)
(* cells; row[k] beyond the tuple raises IndexError, .strip() on a         *)
(* non-string marker raises AttributeError, update['product_name'] on a    *)
(* dict without that key raises KeyError.                                  *)
(***************************************************************************)
RECURSIVE scan_section(_, _, _, _)
scan_section(sheet, update, r, current_section) ==
    IF r > sheet.max_row THEN [sheet |-> sheet, exc |-> "none"]
    ELSE
    LET marker == CellValue(sheet, r, 1)
    IN  IF marker # None /\ marker.t # "str"
        THEN [sheet |-> sheet, exc |-> "AttributeError"]
        ELSE
        LET section == IF marker # None THEN StrV(strip(marker.s))
                       ELSE current_section
        IN  IF section # StrV(update.section)
            THEN scan_section(sheet, update, next_row(sheet, r + 1, {1, 2}), section)
            ELSE IF sheet.max_column < 2
            THEN [sheet |-> sheet, exc |-> "IndexError"]
            ELSE
            LET product_name == CellValue(sheet, r, 2)
            IN  IF Falsy(product_name)
                THEN scan_section(sheet, update, next_row(sheet, r + 1, {1, 2}), section)
                ELSE IF "product_name" \notin DOMAIN update
                THEN [sheet |-> sheet, exc |-> "KeyError"]
                ELSE IF normalize_product_name(product_name)
                            # normalize_product_name(update.product_name)
                THEN scan_section(sheet, update, next_row(sheet, r + 1, {1, 2}), section)
                ELSE
                LET col_idx == get_column_index(update.column)
                IN  IF col_idx >= sheet.max_column
                    THEN [sheet |-> sheet, exc |-> "IndexError"]
                    ELSE [sheet |-> SetCell(sheet, r, col_idx + 1, IntV(update.value)),
                          exc |-> "none"]

\* Variant: the scan starts at row 2.
apply_section_update_from_row_2(sheet, update) ==
    IF update.section \in Sections
    THEN scan_section(sheet, update, next_row(sheet, 2, {1, 2}), None)
    ELSE [sheet |-> sheet, exc |-> "none"]

apply_section_update(sheet, update) ==
    IF update.section \in Sections
    THEN scan_section(sheet, update, next_row(sheet, 3, {1, 2}), None)
    ELSE [sheet |-> sheet, exc |-> "none"]

(***************************************************************************)
(* apply_updates, lines 166-192: the row/column updates, with the running  *)
(* sum of the handling-fee cell (row 81, column 'E') kept in the dict      *)
(* handling_fees, keyed by (row, column).                                  *)
(***************************************************************************)
\* Variant: every cell accumulates, not only the handling-fee cell.
apply_row_update_accumulating(sheet, row_update, handling_fees) ==
    LET col_idx == get_column_index(row_update.column)
        old == CellValue(sheet, row_update.row, col_idx + 1)
        sum == (IF old.t = "int" THEN old.i ELSE 0) + row_update.value
    IN  [sheet |-> SetCell(sheet, row_update.row, col_idx + 1, IntV(sum)),
         handling_fees |-> handling_fees]

apply_row_update(sheet, row_update, handling_fees) ==
    LET row_idx == row_update.row - 1
        col_idx == get_column_index(row_update.column)
        cell_key == <<row_idx + 1, col_idx + 1>>
    IN  IF row_idx + 1 = AccRow /\ row_update.column = AccColumn
        THEN LET previous == IF cell_key \in DOMAIN handling_fees
                             THEN handling_fees[cell_key] ELSE 0
                 fees == [k \in DOMAIN handling_fees \cup {cell_key} |->
                             IF k = cell_key THEN previous + row_update.value
                             ELSE handling_fees[k]]
             IN  [sheet |-> SetCell(sheet, row_idx + 1, col_idx + 1,
                                    IntV(fees[cell_key])),
                  handling_fees |-> fees]
        ELSE [sheet |-> SetCell(sheet, row_idx + 1, col_idx + 1,
                                IntV(row_update.value)),
              handling_fees |-> handling_fees]

RECURSIVE apply_row_updates(_, _, _, _)
apply_row_updates(sheet, row_updates, k, handling_fees) ==
    IF k > Len(row_updates)
    THEN [sheet |-> sheet, handling_fees |-> handling_fees]
    ELSE LET r == apply_row_update(sheet, row_updates[k], handling_fees)
         IN  apply_row_updates(r.sheet, row_updates, k + 1, r.handling_fees)

(***************************************************************************)
(* apply_updates, lines 194-211: the date-keyed update.  A day that        *)
(* matches no row only logs a warning.                                     *)
(***************************************************************************)
RECURSIVE write_columns(_, _, _, _)
write_columns(sheet, r, col_updates, k) ==
    IF k > Len(col_updates) THEN [sheet |-> sheet, exc |-> "none"]
    ELSE LET col_idx == get_column_index(col_updates[k].column)
         IN  IF col_idx >= sheet.max_column
             THEN [sheet |-> sheet, exc |-> "IndexError"]
             ELSE write_columns(SetCell(sheet, r, col_idx + 1,
                                        IntV(col_updates[k].value)),
                                r, col_updates, k + 1)

\* Variant: the scan goes on after a match and writes every row of the day.
RECURSIVE scan_date_every_row(_, _, _)
scan_date_every_row(sheet, update, r) ==
    IF r > sheet.max_row THEN [sheet |-> sheet, exc |-> "none"]
    ELSE IF sheet.max_column < 2 THEN [sheet |-> sheet, exc |-> "IndexError"]
    ELSE IF CellValue(sheet, r, 2) = IntV(update.date)
         THEN scan_date_every_row(write_columns(sheet, r, update.updates, 1).sheet,
                                  update, next_row(sheet, r + 1, {2}))
         ELSE scan_date_every_row(sheet, update, next_row(sheet, r + 1, {2}))

RECURSIVE scan_date(_, _, _)
scan_date(sheet, update, r) ==
    IF r > sheet.max_row THEN [sheet |-> sheet, exc |-> "none"]
    ELSE IF sheet.max_column < 2 THEN [sheet |-> sheet, exc |-> "IndexError"]
    ELSE IF CellValue(sheet, r, 2) = IntV(update.date)
         THEN write_columns(sheet, r, update.updates, 1)
         ELSE scan_date(sheet, update, next_row(sheet, r + 1, {2}))

\* Variant: a day that matches no row is an error.
apply_date_update_strict(sheet, update) ==
    LET r == scan_date(sheet, update, next_row(sheet, 2, {2}))
    IN  IF \A p \in DOMAIN sheet.cells :
              (p[1] >= 2 /\ p[2] = 2) => sheet.cells[p] # IntV(update.date)
        THEN [sheet |-> sheet, exc |-> "ValueError"]
        ELSE r

apply_date_update(sheet, update) ==
    scan_date(sheet, update, next_row(sheet, 2, {2}))

(***************************************************************************)
(* ExcelUpdater.apply_updates, the loop of lines 132-211: each update is   *)
(* validated and then applied, in list order, to the workbook in memory.   *)
(* The result is the workbook as the call leaves it and the exception it   *)
(* raised ("none" when it returned).                                       *)
(***************************************************************************)
\* Variant: the sheet is removed and created again, which moves it to the
\* end of the sheet list.
WithSheet_recreated(wb, name, sheet) ==
    [sheetnames |-> SelectSeq(wb.sheetnames, LAMBDA n : n # name) \o <<name>>,
     sheets |-> [wb.sheets EXCEPT ![name] = sheet]]

\* sheet = self.workbook[sheet_name] (line 139) is the worksheet object of
\* the workbook: what is written to it is written to the workbook.
WithSheet(wb, name, sheet) ==
    [wb EXCEPT !.sheets = [@ EXCEPT ![name] = sheet]]

apply_one(wb, update, handling_fees) ==
    LET sheet_name == update.sheet
        sheet == wb.sheets[sheet_name]
    IN  IF sheet_name \in PriceSheets
        THEN IF "section" \in DOMAIN update
             THEN LET r == apply_section_update(sheet, update)
                  IN  [workbook |-> WithSheet(wb, sheet_name, r.sheet),
                       exc |-> r.exc, handling_fees |-> handling_fees]
             ELSE IF "updates" \in DOMAIN update
             THEN LET r == apply_row_updates(sheet, update.updates, 1, handling_fees)
                  IN  [workbook |-> WithSheet(wb, sheet_name, r.sheet),
                       exc |-> "none", handling_fees |-> r.handling_fees]
             ELSE [workbook |-> wb, exc |-> "none", handling_fees |-> handling_fees]
        ELSE IF sheet_name = DateSheet
        THEN LET r == apply_date_update(sheet, update)
             IN  [workbook |-> WithSheet(wb, sheet_name, r.sheet),
                  exc |-> r.exc, handling_fees |-> handling_fees]
        ELSE [workbook |-> wb, exc |-> "none", handling_fees |-> handling_fees]

\* Variant: an update that fails validation is skipped and the loop goes on.
RECURSIVE apply_from_lenient(_, _, _, _)
apply_from_lenient(wb, updates, k, handling_fees) ==
    IF k > Len(updates) THEN [workbook |-> wb, exc |-> "none"]
    ELSE IF ~validate_update(wb, updates[k])
    THEN apply_from_lenient(wb, updates, k + 1, handling_fees)
    ELSE LET r == apply_one(wb, updates[k], handling_fees)
         IN  IF r.exc # "none"
             THEN [workbook |-> r.workbook, exc |-> r.exc]
             ELSE apply_from_lenient(r.workbook, updates, k + 1, r.handling_fees)

RECURSIVE apply_from(_, _, _, _)
apply_from(wb, updates, k, handling_fees) ==
    IF k > Len(updates) THEN [workbook |-> wb, exc |-> "none"]
    ELSE IF ~validate_update(wb, updates[k])
    THEN [workbook |-> wb, exc |-> "ValueError"]
    ELSE LET r == apply_one(wb, updates[k], handling_fees)
         IN  IF r.exc # "none"
             THEN [workbook |-> r.workbook, exc |-> r.exc]
             ELSE apply_from(r.workbook, updates, k + 1, r.handling_fees)

\* Variant: handling_fees is not emptied by the call; it starts from what the
\* handling-fee cell of the first price sheet holds.
apply_updates_keeping_fees(wb, updates) ==
    LET held == CellValue(wb.sheets["TiaoJiaQian"], AccRow, 5)
    IN  apply_from(wb, updates, 1,
                   IF held.t = "int" THEN (<<AccRow, 5>> :> held.i) ELSE <<>>)

apply_updates(wb, updates) == apply_from(wb, updates, 1, <<>>)

(***************************************************************************)
(* State                                                                   *)
(***************************************************************************)
VARIABLES
    workbook,   \* ExcelUpdater.workbook: the document in memory
    before,     \* the document when the last apply_updates call started
    batch,      \* the updates list of the last apply_updates call
    raised,     \* "idle" before any call, else the exception of the last
                \* call, "none" when it returned
    pc_engine   \* "ready" -> "applied"

engineVars == <<workbook, before, batch, raised, pc_engine>>

VARIABLES
    lock_owner,  \* ExcelUpdater._global_lock: the thread that holds it, 0 if free
    lock_count,  \* its recursion level (RLock)
    pc_thread,   \* per thread: the ExcelUpdater method it is in, and where
    handle,      \* per ExcelUpdater instance: the workbook object it holds
    loads        \* workbook objects created by open_workbook so far

lockVars == <<lock_owner, lock_count, pc_thread, handle, loads>>

VARIABLES
    uploaded_files,      \* MainWindow.uploaded_files: the categories it has a file for
    processing_status,   \* MainWindow.processing_status, "none" for a missing key
    processing_results,  \* MainWindow.processing_results: per category, the result stored last
    pending_updates,     \* MainWindow.pending_updates
    is_processing,       \* MainWindow.is_processing
    timer_active,        \* MainWindow.update_timer is running
    running,             \* extraction worker threads that have not reported yet
    update_workers,      \* ExcelUpdateWorker threads whose result is not handled yet
    run,                 \* number of process-all runs started so far
    started_updates      \* for each ExcelUpdateWorker started, the run that started it

guiVars == <<uploaded_files, processing_status, processing_results, pending_updates,
             is_processing, timer_active, running, update_workers, run,
             started_updates>>

VARIABLES
    value,          \* parse_numeric_value: the argument value
    unit,           \* its argument unit
    default_value,  \* its argument default_value
    parsed          \* what the call did: the exception it raised and the float it returned

parseVars == <<value, unit, default_value, parsed>>

VARIABLES
    invoice_category,  \* process_invoice: the category of the image
    data,      \* the dict the vision service recognised in it
    result     \* what process_invoice did: the dict it returned or the exception it raised

extractVars == <<invoice_category, data, result>>

VARIABLES
    files,        \* the workbook files on disk, by path
    output_path,  \* self.output_path: where save_workbook writes
    calls         \* the methods called on the engine since its construction

lifeVars == <<files, output_path, calls>>

VARIABLES
    column,     \* _get_column_index: the argument column
    col_index   \* what the call returned, -1 before the call

columnVars == <<column, col_index>>

VARIABLES
    selected,      \* MainWindow.selected_date, selected_work_start_time,
                   \* selected_shift_time and gas_price
    init_worker,   \* the TableInitializationWorker started last and not handled yet
    processors,    \* the shift_config of MainWindow.processor and table_processor
    constructed    \* what the last ShiftConfig(...) call did

configVars == <<selected, init_worker, processors, constructed>>

vars == <<engineVars, lockVars, guiVars, parseVars, extractVars, lifeVars,
          columnVars, configVars>>

(***************************************************************************)
(* Inputs of the engine specification.                                     *)
(* The template workbook: two price sheets with section markers in column  *)
(* A and pump numbers in column B from row 3, the handling-fee cell E81,   *)
(* the discount detail sheet with the day number in column B from row 2,   *)
(* and one sheet the code has no rule for.                                 *)
(***************************************************************************)
MaxBatch == 3

Text3Hao == <<51, chHao>>
Text4Hao == <<52, chHao>>
Text3 == <<51>>
Text03 == <<chDigit0, 51>>

PriceCells(fee) ==
    LET base == (<<3, 1>> :> StrV(<<chA>>)) @@ (<<3, 2>> :> StrV(Text3Hao))
             @@ (<<4, 2>> :> StrV(Text4Hao))
             @@ (<<5, 1>> :> StrV(<<chB, chSpace>>)) @@ (<<5, 2>> :> StrV(Text3Hao))
             @@ (<<5, 4>> :> IntV(11))
             @@ (<<90, 3>> :> IntV(12))
    IN  IF fee = 0 THEN base ELSE base @@ (<<AccRow, 5>> :> IntV(fee))

PriceSheet(fee) == [max_row |-> 90, max_column |-> 8, cells |-> PriceCells(fee)]

DateCells ==
    (<<2, 2>> :> IntV(1)) @@ (<<3, 2>> :> IntV(2)) @@ (<<4, 2>> :> IntV(2))
    @@ (<<3, 3>> :> IntV(13))

DetailSheet == [max_row |-> 4, max_column |-> 4, cells |-> DateCells]

OtherSheet == [max_row |-> 1, max_column |-> 1, cells |-> <<>>]

Template(feeBefore, feeAfter) ==
    [sheetnames |-> <<"TiaoJiaQian", "TiaoJiaHou", "YouPinYouHuiMingXi2", "Sheet1">>,
     sheets |-> [n \in {"TiaoJiaQian", "TiaoJiaHou", "YouPinYouHuiMingXi2", "Sheet1"} |->
                    IF n = "TiaoJiaQian" THEN PriceSheet(feeBefore)
                    ELSE IF n = "TiaoJiaHou" THEN PriceSheet(feeAfter)
                    ELSE IF n = "YouPinYouHuiMingXi2" THEN DetailSheet
                    ELSE OtherSheet]]

PriorFees == {0, 7}

InitialWorkbooks == {Template(a, b) : a \in PriorFees, b \in PriorFees}

RowUpdate(r, c, v) == [row |-> r, column |-> c, value |-> v]
ColUpdate(c, v) == [column |-> c, value |-> v]

Instructions ==
    { \* row/column updates, formats 2 of the docstring
      [sheet |-> "TiaoJiaQian", updates |-> <<RowUpdate(AccRow, <<chE>>, 160)>>],
      [sheet |-> "TiaoJiaQian",
       updates |-> <<RowUpdate(AccRow, <<chE>>, 300), RowUpdate(90, <<chC>>, 21)>>],
      [sheet |-> "TiaoJiaQian",
       updates |-> <<RowUpdate(90, <<chC>>, 22), RowUpdate(AccRow, <<chE>>, 50)>>],
      [sheet |-> "TiaoJiaHou", updates |-> <<RowUpdate(AccRow, <<chE>>, 50)>>],
      [sheet |-> "TiaoJiaQian", updates |-> <<RowUpdate(AccRow, <<chLowerE>>, 2)>>],
      \* product-name updates, format 1
      [sheet |-> "TiaoJiaQian", section |-> <<chA>>, product_name |-> StrV(Text3),
       column |-> <<chD>>, value |-> 31],
      [sheet |-> "TiaoJiaQian", section |-> <<chB>>, product_name |-> IntV(3),
       column |-> <<chD>>, value |-> 32],
      [sheet |-> "TiaoJiaQian", section |-> <<chA>>, product_name |-> StrV(Text03),
       column |-> <<chD>>, value |-> 33],
      \* date updates, format 3
      [sheet |-> "YouPinYouHuiMingXi2", date |-> 2,
       updates |-> <<ColUpdate(<<chC>>, 41), ColUpdate(<<chD>>, 42)>>],
      [sheet |-> "YouPinYouHuiMingXi2", date |-> 32,
       updates |-> <<ColUpdate(<<chC>>, 43)>>],
      \* updates that validation rejects
      [updates |-> <<RowUpdate(90, <<chC>>, 23)>>],
      [sheet |-> "WuCiBiao", updates |-> <<RowUpdate(90, <<chC>>, 24)>>],
      [sheet |-> "TiaoJiaQian", value |-> 25] }

RECURSIVE SeqsUpTo(_, _)
SeqsUpTo(S, n) ==
    IF n = 0 THEN {<<>>}
    ELSE LET shorter == SeqsUpTo(S, n - 1)
         IN  shorter \cup {Append(q, x) : q \in shorter, x \in S}

Batches == SeqsUpTo(Instructions, MaxBatch)

(***************************************************************************)
(* The engine specification: one apply_updates call on a freshly loaded    *)
(* workbook.  __init__ (lines 23-35) loads the workbook.                   *)
(***************************************************************************)
LockIdle ==
    /\ lock_owner = 0
    /\ lock_count = 0
    /\ pc_thread = <<>>
    /\ handle = <<>>
    /\ loads = 0

\* no parse_numeric_value call and no process_invoice call is under way
ParseIdle ==
    /\ value = <<>>
    /\ unit = <<>>
    /\ default_value = <<>>
    /\ parsed = <<>>

ExtractIdle ==
    /\ invoice_category = "none"
    /\ data = <<>>
    /\ result = <<>>

\* MainWindow.__init__, lines 275-285
LifeIdle ==
    /\ files = <<>>
    /\ output_path = "none"
    /\ calls = <<>>

ColumnIdle ==
    /\ column = <<>>
    /\ col_index = 0 - 1

\* no output table is uploaded: there is no processor
ConfigIdle ==
    /\ selected = <<>>
    /\ init_worker = <<>>
    /\ processors = <<>>
    /\ constructed = <<>>

GuiConstructed ==
    /\ uploaded_files = {}
    /\ processing_status = <<>>
    /\ processing_results = <<>>
    /\ pending_updates = <<>>
    /\ is_processing = FALSE
    /\ timer_active = FALSE
    /\ running = {}
    /\ update_workers = {}
    /\ run = 0
    /\ started_updates = <<>>

InitEngine ==
    /\ workbook \in InitialWorkbooks
    /\ before = workbook
    /\ batch = <<>>
    /\ raised = "idle"
    /\ pc_engine = "ready"
    /\ LockIdle
    /\ GuiConstructed
    /\ ParseIdle
    /\ ExtractIdle
    /\ ColumnIdle
    /\ ConfigIdle
    /\ LifeIdle

ApplyUpdates ==
    /\ pc_engine = "ready"
    /\ \E updates \in Batches :
          LET r == apply_updates(workbook, updates)
          IN  /\ workbook' = r.workbook
              /\ raised' = r.exc
              /\ batch' = updates
    /\ before' = workbook
    /\ pc_engine' = "applied"
    /\ UNCHANGED <<lockVars, guiVars, parseVars, extractVars, lifeVars, columnVars, configVars>>

NextEngine == ApplyUpdates

SpecEngine == InitEngine /\ [][NextEngine]_vars

(***************************************************************************)
(* What an update addresses, stated from the document and not from the     *)
(* loop: the row a lookup designates is the least row that satisfies the   *)
(* lookup condition.  None of the Instructions writes column A or B, so    *)
(* the lookups of a batch can be read off the document before the call.    *)
(***************************************************************************)
\* the rows of a sheet that hold a value in column c
RowsWith(sheet, c) == {p[1] : p \in {q \in DOMAIN sheet.cells : q[2] = c}}

Greatest(S) == CHOOSE x \in S : \A y \in S : y <= x

\* the section a row belongs to: the marker of the nearest row at or above it
\* (from row 3) whose column A is not empty
SectionOfRow(sheet, r) ==
    LET marked == {q \in RowsWith(sheet, 1) : q >= 3 /\ q <= r}
    IN  IF marked = {} THEN None
        ELSE StrV(strip(CellValue(sheet, Greatest(marked), 1).s))

SectionRows(sheet, update) ==
    {r \in {q \in RowsWith(sheet, 2) : q >= 3} :
        /\ SectionOfRow(sheet, r) = StrV(update.section)
        /\ ~Falsy(CellValue(sheet, r, 2))
        /\ normalize_product_name(CellValue(sheet, r, 2))
              = normalize_product_name(update.product_name)}

DateRows(sheet, update) ==
    {r \in {q \in RowsWith(sheet, 2) : q >= 2} :
        CellValue(sheet, r, 2) = IntV(update.date)}

IsRowUpdate(u) ==
    /\ u.sheet \in PriceSheets
    /\ "section" \notin DOMAIN u
    /\ "updates" \in DOMAIN u

IsSectionUpdate(u) == u.sheet \in PriceSheets /\ "section" \in DOMAIN u

IsDateUpdate(u) == u.sheet = DateSheet

\* a validated update whose lookup designates no row
LookupMiss(wb, u) ==
    /\ validate_update(wb, u)
    /\ \/ IsDateUpdate(u) /\ DateRows(wb.sheets[u.sheet], u) = {}
       \/ /\ IsSectionUpdate(u)
          /\ u.section \in Sections
          /\ SectionRows(wb.sheets[u.sheet], u) = {}

Write(s, r, c, v) == [sheet |-> s, row |-> r, col |-> c, value |-> v]

\* the cell writes a validated update addresses, in the order it lists them
Writes(wb, u) ==
    IF IsRowUpdate(u)
    THEN [k \in 1..Len(u.updates) |->
             Write(u.sheet, u.updates[k].row,
                   get_column_index(u.updates[k].column) + 1, u.updates[k].value)]
    ELSE IF IsSectionUpdate(u) /\ u.section \in Sections
            /\ SectionRows(wb.sheets[u.sheet], u) # {}
    THEN <<Write(u.sheet, Min(SectionRows(wb.sheets[u.sheet], u)),
                 get_column_index(u.column) + 1, u.value)>>
    ELSE IF IsDateUpdate(u) /\ DateRows(wb.sheets[u.sheet], u) # {}
    THEN [k \in 1..Len(u.updates) |->
             Write(u.sheet, Min(DateRows(wb.sheets[u.sheet], u)),
                   get_column_index(u.updates[k].column) + 1, u.updates[k].value)]
    ELSE <<>>

RECURSIVE BatchWrites(_, _, _)
BatchWrites(wb, updates, k) ==
    IF k > Len(updates) THEN <<>>
    ELSE Writes(wb, updates[k]) \o BatchWrites(wb, updates, k + 1)

AllValid(wb, updates) ==
    \A k \in 1..Len(updates) : validate_update(wb, updates[k])

\* the writes of a batch that address cell (s, r, c), in batch order
WritesTo(ws, s, r, c) ==
    SelectSeq(ws, LAMBDA w : w.sheet = s /\ w.row = r /\ w.col = c)

RECURSIVE SumValues(_)
SumValues(ws) == IF ws = <<>> THEN 0 ELSE Head(ws).value + SumValues(Tail(ws))

AccCol == 5

IsAccCell(r, c) == r = AccRow /\ c = AccCol

Addressed(ws) == {<<ws[k].sheet, ws[k].row, ws[k].col>> : k \in 1..Len(ws)}

(***************************************************************************)
(* Claims about apply_updates (specification SpecEngine)                   *)
(***************************************************************************)
Applied == pc_engine = "applied"

Returned == Applied /\ raised = "none"

BadSheet(wb, u) == "sheet" \notin DOMAIN u \/ u.sheet \notin SheetNames(wb)

LastValue(ws) == ws[Len(ws)].value

\* C1: if an instruction of the batch fails validation, apply_updates raises
\* and the workbook in memory is what it was before the call: no instruction
\* of the batch has written a cell.
C1_ValidationFailureWritesNothing ==
    (Applied /\ ~AllValid(before, batch)) =>
        (raised # "none" /\ workbook = before)

\* C5: after apply_updates(batch) the accumulating cell (row 81, column E) of
\* a sheet holds the sum of the values of all instructions of the batch that
\* address that cell, whatever it held before and in whatever order they come.
C5_AccumulatingCellIsSum ==
    Returned =>
        LET ws == BatchWrites(before, batch, 1)
        IN  \A s \in PriceSheets :
               WritesTo(ws, s, AccRow, AccCol) # <<>> =>
                  CellValue(workbook.sheets[s], AccRow, AccCol)
                     = IntV(SumValues(WritesTo(ws, s, AccRow, AccCol)))

\* C6: after apply_updates(batch) every cell other than the accumulating cell
\* that the batch addresses holds the value of the last instruction, in batch
\* order, that addresses it: earlier values are overwritten, never added.
C6_LastWriteWins ==
    Returned =>
        LET ws == BatchWrites(before, batch, 1)
        IN  \A a \in Addressed(ws) :
               ~IsAccCell(a[2], a[3]) =>
                  CellValue(workbook.sheets[a[1]], a[2], a[3])
                     = IntV(LastValue(WritesTo(ws, a[1], a[2], a[3])))

C6_Witness ==
    /\ Returned
    /\ LET ws == WritesTo(BatchWrites(before, batch, 1), "TiaoJiaQian", 90, 3)
       IN  /\ Len(ws) >= 2
           /\ ws[1].value # LastValue(ws)
           /\ CellValue(workbook.sheets["TiaoJiaQian"], 90, 3) = IntV(LastValue(ws))

\* C9: an instruction whose lookup misses (a day or a section/key that matches
\* no row) writes no cell and raises no error; the other instructions of the
\* batch, before and after it, are applied as if it were not there.
NotMisses(wb, updates) == SelectSeq(updates, LAMBDA u : ~LookupMiss(wb, u))

CellsOf(sheet) == DOMAIN sheet.cells

C9_LookupMissIsSkipped ==
    (Applied /\ AllValid(before, batch)
       /\ \E k \in 1..Len(batch) : LookupMiss(before, batch[k])) =>
        LET others == NotMisses(before, batch)
            ws == BatchWrites(before, others, 1)
        IN  /\ raised = "none"
            /\ workbook = apply_updates(before, others).workbook
            /\ \A a \in Addressed(ws) :
                  ~IsAccCell(a[2], a[3]) =>
                     CellValue(workbook.sheets[a[1]], a[2], a[3])
                        = IntV(LastValue(WritesTo(ws, a[1], a[2], a[3])))
            /\ \A s \in SheetNames(before) :
                  \A p \in CellsOf(before.sheets[s]) \cup CellsOf(workbook.sheets[s]) :
                     <<s, p[1], p[2]>> \notin Addressed(ws) =>
                        CellValue(workbook.sheets[s], p[1], p[2])
                           = CellValue(before.sheets[s], p[1], p[2])

C9_Witness ==
    /\ Returned
    /\ Len(batch) = 3
    /\ ~LookupMiss(before, batch[1])
    /\ LookupMiss(before, batch[2])
    /\ IsDateUpdate(batch[2])
    /\ IsDateUpdate(batch[3])
    /\ ~LookupMiss(before, batch[3])
    /\ Writes(before, batch[1]) # <<>>
    /\ CellValue(workbook.sheets[DateSheet], 3, 3) = IntV(41)
    /\ workbook # before

\* C10: apply_updates raises for every instruction that names no sheet or a
\* sheet the workbook does not have, and the error is the validation error
\* when the instructions before it were applied.
C10_BadSheetRaises ==
    Applied =>
        \A k \in 1..Len(batch) :
           BadSheet(before, batch[k]) =>
              /\ raised # "none"
              /\ AllValid(before, SubSeq(batch, 1, k - 1)) => raised = "ValueError"

C10_Witness ==
    /\ Applied
    /\ raised = "ValueError"
    /\ Len(batch) = 2
    /\ validate_update(before, batch[1])
    /\ "sheet" \in DOMAIN batch[2]
    /\ batch[2].sheet \notin SheetNames(before)

(***************************************************************************)
(* The class-level lock (specification SpecLock).  Threads call the        *)
(* methods of the ExcelUpdater instances of the process: the update        *)
(* worker calls apply_updates and save_workbook, the GUI thread            *)
(* close_workbook and open_workbook.  apply_updates, save_workbook and     *)
(* close_workbook run their body inside `with ExcelUpdater._global_lock`   *)
(* (lines 130, 54, 71); open_workbook (lines 37-42) assigns self.workbook  *)
(* with no lock.                                                           *)
(***************************************************************************)
NumThreads == 2
MaxLoads == 2

Threads == 1..NumThreads
Updaters == {"processor", "table_processor"}
LockedMethods == {"apply_updates", "save_workbook", "close_workbook"}

Idle == [op |-> "none", at |-> "idle", on |-> "none"]

InitLock ==
    /\ lock_owner = 0
    /\ lock_count = 0
    /\ pc_thread = [t \in Threads |-> Idle]
    /\ handle = [u \in Updaters |-> 0]
    /\ loads = 0
    /\ workbook = Template(0, 0)
    /\ before = workbook
    /\ batch = <<>>
    /\ raised = "idle"
    /\ pc_engine = "ready"
    /\ GuiConstructed
    /\ ParseIdle
    /\ ExtractIdle
    /\ ColumnIdle
    /\ ConfigIdle
    /\ LifeIdle

\* RLock.acquire returns at once for the owner or when the lock is free;
\* any other thread blocks.
\* Variant: one lock per instance, so only callers on the same instance wait.
CanAcquire_per_instance(t) ==
    \A o \in Threads \ {t} :
        ~(pc_thread[o].at = "body" /\ pc_thread[o].op \in LockedMethods
          /\ pc_thread[o].on = pc_thread[t].on)

CanAcquire(t) == lock_owner = 0 \/ lock_owner = t

\* a thread calls apply_updates, save_workbook or close_workbook and reaches
\* the with statement
CallLocked(t) ==
    /\ pc_thread[t] = Idle
    /\ \E m \in LockedMethods, u \in Updaters :
          pc_thread' = [pc_thread EXCEPT ![t] = [op |-> m, at |-> "lock", on |-> u]]
    /\ UNCHANGED <<lock_owner, lock_count, handle, loads, engineVars, guiVars, parseVars, extractVars, lifeVars, columnVars, configVars>>

\* __enter__ of the with statement
Acquire(t) ==
    /\ pc_thread[t].at = "lock"
    /\ CanAcquire(t)
    /\ lock_owner' = t
    /\ lock_count' = lock_count + 1
    /\ pc_thread' = [pc_thread EXCEPT ![t].at = "body"]
    /\ UNCHANGED <<handle, loads, engineVars, guiVars, parseVars, extractVars, lifeVars, columnVars, configVars>>

\* the body ends and __exit__ releases the lock
Release(t) ==
    /\ pc_thread[t].at = "body"
    /\ pc_thread[t].op \in LockedMethods
    /\ lock_count' = lock_count - 1
    /\ lock_owner' = IF lock_count = 1 THEN 0 ELSE lock_owner
    /\ pc_thread' = [pc_thread EXCEPT ![t] = Idle]
    /\ UNCHANGED <<handle, loads, engineVars, guiVars, parseVars, extractVars, lifeVars, columnVars, configVars>>

\* open_workbook, line 41: load_workbook builds a new workbook object
CallOpen(t) ==
    /\ pc_thread[t] = Idle
    /\ loads < MaxLoads
    /\ \E u \in Updaters :
          pc_thread' = [pc_thread EXCEPT
                           ![t] = [op |-> "open_workbook", at |-> "body", on |-> u]]
    /\ loads' = loads + 1
    /\ UNCHANGED <<lock_owner, lock_count, handle, engineVars, guiVars, parseVars, extractVars, lifeVars, columnVars, configVars>>

\* open_workbook, lines 41-42: self.workbook is bound to the new object
AssignWorkbook(t) ==
    /\ pc_thread[t].op = "open_workbook"
    /\ pc_thread[t].at = "body"
    /\ handle' = [handle EXCEPT ![pc_thread[t].on] = loads]
    /\ pc_thread' = [pc_thread EXCEPT ![t] = Idle]
    /\ UNCHANGED <<lock_owner, lock_count, loads, engineVars, guiVars, parseVars, extractVars, lifeVars, columnVars, configVars>>

NextLock ==
    \E t \in Threads :
        \/ CallLocked(t)
        \/ Acquire(t)
        \/ Release(t)
        \/ CallOpen(t)
        \/ AssignWorkbook(t)

SpecLock == InitLock /\ [][NextLock]_vars

InBody(t, methods) == pc_thread[t].at = "body" /\ pc_thread[t].op \in methods

\* C7: at most one thread at a time is inside the critical section of
\* apply_updates, save_workbook or close_workbook, over all instances; a
\* thread that calls one of them while another is inside waits for the lock.
C7_OneThreadInCriticalSection ==
    /\ \A t1, t2 \in Threads :
          (InBody(t1, LockedMethods) /\ InBody(t2, LockedMethods)) => t1 = t2
    /\ \A t \in Threads : InBody(t, LockedMethods) => lock_owner = t

C7_Witness ==
    \E t1, t2 \in Threads :
        /\ InBody(t1, {"apply_updates"})
        /\ pc_thread[t2].at = "lock"
        /\ pc_thread[t2].op = "save_workbook"
        /\ pc_thread[t2].on # pc_thread[t1].on
        /\ ~ENABLED Acquire(t2)

\* C8: every method that reads, mutates or replaces self.workbook
\* (apply_updates, save_workbook, close_workbook, open_workbook) runs its body
\* holding the lock, so the workbook of an instance is not replaced while
\* another thread is applying a batch to it or saving it.
C8_EveryMethodHoldsTheLock ==
    \A t \in Threads :
        InBody(t, LockedMethods \cup {"open_workbook"}) => lock_owner = t

(***************************************************************************)
(* The batch join of the main window (specification SpecGui).  Every       *)
(* handler below runs on the GUI thread, one at a time; the worker threads *)
(* only talk to it through their finished and error signals, which the     *)
(* event loop delivers as handler calls.  Two of the categories of lines   *)
(* 25-32 are kept: a required image and a required table.  The processors  *)
(* are taken as initialised once the output table is uploaded.  The        *)
(* process button is never disabled, so a file can be uploaded and the     *)
(* button clicked while a run is under way.                                *)
(***************************************************************************)
MaxRuns == 2

REQUIRED_IMAGE_CATEGORIES == {"GuoTong1"}
REQUIRED_TABLE_CATEGORIES == {"YouPinYouHui"}
OutputTable == "output_table"

Categories == REQUIRED_IMAGE_CATEGORIES \cup REQUIRED_TABLE_CATEGORIES
TableCategories == REQUIRED_TABLE_CATEGORIES \cup {OutputTable}

\* the texts of processing_status: 已上传, 处理中, 完成, 错误: <message>,
\* and for the output table 更新中, 已完成, 更新失败
Uploaded == "YiShangChuan"
Processing == "ChuLiZhong"
Complete == "WanCheng"
Failed == "CuoWu"
Updating == "GengXinZhong"
Updated == "YiWanCheng"
UpdateFailed == "GengXinShiBai"

NoResult == [updates |-> FALSE, run |-> 0, category |-> "none"]

InitGui ==
    /\ uploaded_files = {}
    /\ processing_status = [c \in Categories \cup {OutputTable} |-> "none"]
    /\ processing_results = [c \in Categories \cup {OutputTable} |-> NoResult]
    /\ pending_updates = <<>>
    /\ is_processing = FALSE
    /\ timer_active = FALSE
    /\ running = {}
    /\ update_workers = {}
    /\ run = 0
    /\ started_updates = <<>>
    /\ workbook = Template(0, 0)
    /\ before = workbook
    /\ batch = <<>>
    /\ raised = "idle"
    /\ pc_engine = "ready"
    /\ LockIdle
    /\ ParseIdle
    /\ ExtractIdle
    /\ ColumnIdle
    /\ ConfigIdle
    /\ LifeIdle

\* self.pending_updates is bound to another list: an update worker that was
\* given the old list keeps it
Rebound(workers) ==
    {IF u.shared THEN [u EXCEPT !.shared = FALSE, !.own = pending_updates] ELSE u :
        u \in workers}

\* _handle_table_upload and _handle_file_drop
Upload(category) ==
    /\ uploaded_files' = uploaded_files \cup {category}
    /\ processing_status' = [processing_status EXCEPT ![category] = Uploaded]
    /\ processing_results' =
          IF category \in TableCategories
          THEN [processing_results EXCEPT ![category] = NoResult]
          ELSE processing_results
    /\ UNCHANGED <<pending_updates, is_processing, timer_active, running,
                   update_workers, run, started_updates, engineVars, lockVars, parseVars, extractVars, lifeVars, columnVars, configVars>>

_validate_required_files ==
    /\ REQUIRED_IMAGE_CATEGORIES \cup REQUIRED_TABLE_CATEGORIES \subseteq uploaded_files
    /\ OutputTable \in uploaded_files

\* the categories _process_all_files starts a worker for
ToProcess ==
    {c \in uploaded_files : processing_status[c] # Processing /\ c # OutputTable}

\* _process_all_files with _process_single_image and _process_single_table
_process_all_files ==
    /\ run < MaxRuns
    /\ _validate_required_files
    /\ pending_updates' = <<>>
    /\ update_workers' = Rebound(update_workers)
    /\ is_processing' = TRUE
    /\ timer_active' = TRUE
    /\ run' = run + 1
    /\ processing_status' =
          [c \in DOMAIN processing_status |->
              IF c \in ToProcess THEN Processing ELSE processing_status[c]]
    /\ running' = running \cup {[run |-> run + 1, category |-> c] : c \in ToProcess}
    /\ UNCHANGED <<uploaded_files, processing_results, started_updates,
                   engineVars, lockVars, parseVars, extractVars, lifeVars, columnVars, configVars>>

\* a worker emits finished and _handle_processing_complete or
\* _handle_table_processing_complete runs
HandleComplete(w, has_updates) ==
    /\ w \in running
    /\ processing_results' =
          [processing_results EXCEPT
              ![w.category] = [updates |-> has_updates, run |-> w.run,
                               category |-> w.category]]
    /\ pending_updates' =
          IF has_updates THEN Append(pending_updates, w) ELSE pending_updates
    /\ processing_status' = [processing_status EXCEPT ![w.category] = Complete]
    /\ running' = running \ {w}
    /\ UNCHANGED <<uploaded_files, is_processing, timer_active, update_workers, run,
                   started_updates, engineVars, lockVars, parseVars, extractVars, lifeVars, columnVars, configVars>>

\* the result of a worker of this specification has the key 'updates' or not
_handle_processing_complete(w) ==
    \E has_updates \in BOOLEAN : HandleComplete(w, has_updates)

\* a worker emits error and _handle_processing_error runs
_handle_processing_error(w) ==
    /\ w \in running
    /\ processing_status' = [processing_status EXCEPT ![w.category] = Failed]
    /\ running' = running \ {w}
    /\ UNCHANGED <<uploaded_files, processing_results, pending_updates, is_processing,
                   timer_active, update_workers, run, started_updates,
                   engineVars, lockVars, parseVars, extractVars, lifeVars, columnVars, configVars>>

_check_all_processing_complete ==
    \A cat \in uploaded_files \ {OutputTable} : processing_status[cat] = Complete

\* the 500 ms timer fires: _check_and_apply_updates with _apply_all_updates
_check_and_apply_updates ==
    /\ timer_active
    /\ IF ~is_processing
       THEN /\ timer_active' = FALSE
            /\ UNCHANGED <<is_processing, processing_status, update_workers,
                           started_updates>>
       ELSE IF _check_all_processing_complete
       THEN /\ is_processing' = FALSE
            /\ timer_active' = FALSE
            /\ IF pending_updates # <<>>
               THEN /\ processing_status' =
                          [processing_status EXCEPT ![OutputTable] = Updating]
                    /\ update_workers' = update_workers \cup
                          {[run |-> run, shared |-> TRUE, own |-> <<>>,
                            phase |-> "started", success |-> FALSE]}
                    /\ started_updates' = Append(started_updates, run)
               ELSE UNCHANGED <<processing_status, update_workers, started_updates>>
       ELSE UNCHANGED <<timer_active, is_processing, processing_status,
                        update_workers, started_updates>>
    /\ UNCHANGED <<uploaded_files, processing_results, pending_updates, running, run,
                   engineVars, lockVars, parseVars, extractVars, lifeVars, columnVars, configVars>>

\* ExcelUpdateWorker.run: apply_updates on the list it was given, then
\* save_workbook; it emits finished(True) or, after an exception, finished(False)
ExcelUpdateWorker_run(u) ==
    /\ u \in update_workers
    /\ u.phase = "started"
    /\ \E ok \in BOOLEAN :
          update_workers' = (update_workers \ {u}) \cup
              {[run |-> u.run, shared |-> FALSE,
                own |-> <<>>,
                phase |-> "emitted", success |-> ok]}
    /\ UNCHANGED <<uploaded_files, processing_status, processing_results,
                   pending_updates, is_processing, timer_active, running, run,
                   started_updates, engineVars, lockVars, parseVars, extractVars, lifeVars, columnVars, configVars>>

\* Variant: the pending list is emptied whatever the worker reported.
_handle_update_complete_clearing(u) ==
    /\ u \in update_workers
    /\ u.phase = "emitted"
    /\ processing_status' =
          [processing_status EXCEPT
              ![OutputTable] = IF u.success THEN Updated ELSE UpdateFailed]
    /\ pending_updates' = <<>>
    /\ update_workers' = Rebound(update_workers \ {u})
    /\ UNCHANGED <<uploaded_files, processing_results, is_processing, timer_active,
                   running, run, started_updates, engineVars, lockVars, parseVars, extractVars, lifeVars, columnVars, configVars>>

_handle_update_complete(u) ==
    /\ u \in update_workers
    /\ u.phase = "emitted"
    /\ IF u.success
       THEN /\ processing_status' = [processing_status EXCEPT ![OutputTable] = Updated]
            /\ pending_updates' = <<>>
            /\ update_workers' = Rebound(update_workers \ {u})
       ELSE /\ processing_status' =
                  [processing_status EXCEPT ![OutputTable] = UpdateFailed]
            /\ update_workers' = update_workers \ {u}
            /\ UNCHANGED pending_updates
    /\ UNCHANGED <<uploaded_files, processing_results, is_processing, timer_active,
                   running, run, started_updates, engineVars, lockVars, parseVars, extractVars, lifeVars, columnVars, configVars>>

UserUploads == \E category \in Categories \cup {OutputTable} : Upload(category)
WorkerFinished == \E w \in running : _handle_processing_complete(w)
WorkerError == \E w \in running : _handle_processing_error(w)
UpdateWorkerRuns == \E u \in update_workers : ExcelUpdateWorker_run(u)
UpdateWorkerReports == \E u \in update_workers : _handle_update_complete(u)

NextGui ==
    \/ UserUploads
    \/ _process_all_files
    \/ WorkerFinished
    \/ WorkerError
    \/ _check_and_apply_updates
    \/ UpdateWorkerRuns
    \/ UpdateWorkerReports

SpecGui == InitGui /\ [][NextGui]_vars

\* the poll that starts the update worker
ApplyStarts == _check_and_apply_updates /\ started_updates' # started_updates

Outstanding(r) == {w \in running : w.run = r}

InBatch(w) == \E k \in 1..Len(pending_updates) : pending_updates[k] = w

\* every uploaded category has reported to the run that is under way
RunReported ==
    /\ run >= 1
    /\ Outstanding(run) = {}
    /\ \A c \in uploaded_files \ {OutputTable} :
          processing_status[c] \in {Complete, Failed}

\* C2: the update worker of a run is not started while a worker the run
\* started has yet to report, and the batch it is given holds the
\* instructions of every successful extraction of the run.
C2_ApplyWaitsForEveryTask ==
    [][ApplyStarts =>
          /\ Outstanding(run) = {}
          /\ \A c \in uploaded_files \ {OutputTable} :
                (processing_results[c].run = run /\ processing_results[c].updates)
                   => InBatch([run |-> run, category |-> c])]_vars

\* C3: a failed extraction counts as done for the join: once every task of
\* the run has reported and one of them failed, the next poll starts the
\* update worker with the instructions of the successful tasks.
C3_FailedTaskCountsAsDone ==
    (/\ RunReported
     /\ is_processing
     /\ \E c \in uploaded_files : processing_status[c] = Failed
     /\ \E c \in uploaded_files : processing_status[c] = Complete
     /\ pending_updates # <<>>)
       => ENABLED ApplyStarts

TimesStarted(r) ==
    Cardinality({k \in 1..Len(started_updates) : started_updates[k] = r})

\* C4: the update worker is started exactly once per run: never twice, and
\* once the last task of a run that produced instructions has reported, it
\* has been started or the next poll starts it.
C4_ApplyExactlyOncePerRun ==
    /\ \A r \in 1..MaxRuns : TimesStarted(r) <= 1
    /\ (/\ RunReported
        /\ \E k \in 1..Len(pending_updates) : pending_updates[k].run = run)
          => (TimesStarted(run) = 1 \/ ENABLED ApplyStarts)

(***************************************************************************)
(* Product-name updates (specification SpecCategorical): one apply_updates *)
(* call with one update of the first format of the docstring, or one that  *)
(* lacks a key of it, on a price sheet whose first pump row (row 3,        *)
(* section A) holds one of RowNames in column B.                           *)
(***************************************************************************)
SectionCodes == Sections \cup {<<chD>>}

RowNames ==
    { StrV(Text3Hao), StrV(<<chSpace, 51, chHao, chSpace>>), StrV(Text3), IntV(3),
      StrV(Text03), StrV(<<51, chHao, chHao>>), StrV(<<chDigit0, chHao>>), IntV(0) }

LookupKeys ==
    { StrV(Text3), StrV(Text3Hao), IntV(3), StrV(Text03),
      StrV(<<chSpace, 51, chSpace>>), StrV(<<chDigit0>>), IntV(0) }

CategoricalInstructions ==
    {[sheet |-> s, section |-> sec, product_name |-> key, column |-> <<chD>>,
      value |-> 31] : s \in PriceSheets, sec \in SectionCodes, key \in LookupKeys}
    \cup {[sheet |-> s, product_name |-> key, column |-> <<chD>>, value |-> 31] :
             s \in PriceSheets, key \in LookupKeys}
    \cup {[sheet |-> s, section |-> sec, column |-> <<chD>>, value |-> 31] :
             s \in PriceSheets, sec \in SectionCodes}
    \cup {[sheet |-> s, section |-> sec, product_name |-> key, value |-> 31] :
             s \in PriceSheets, sec \in SectionCodes, key \in LookupKeys}

TemplateNamed(name) ==
    LET t == Template(0, 0)
    IN  [sheetnames |-> t.sheetnames,
         sheets |-> [n \in DOMAIN t.sheets |->
                        IF n \in PriceSheets THEN SetCell(t.sheets[n], 3, 2, name)
                        ELSE t.sheets[n]]]

InitCategorical ==
    /\ workbook \in {TemplateNamed(name) : name \in RowNames}
    /\ before = workbook
    /\ batch = <<>>
    /\ raised = "idle"
    /\ pc_engine = "ready"
    /\ LockIdle
    /\ GuiConstructed
    /\ ParseIdle
    /\ ExtractIdle
    /\ ColumnIdle
    /\ ConfigIdle
    /\ LifeIdle

ApplyCategorical ==
    /\ pc_engine = "ready"
    /\ \E update \in CategoricalInstructions :
          LET r == apply_updates(workbook, <<update>>)
          IN  /\ workbook' = r.workbook
              /\ raised' = r.exc
              /\ batch' = <<update>>
    /\ before' = workbook
    /\ pc_engine' = "applied"
    /\ UNCHANGED <<lockVars, guiVars, parseVars, extractVars, lifeVars, columnVars, configVars>>

NextCategorical == ApplyCategorical

SpecCategorical == InitCategorical /\ [][NextCategorical]_vars

\* the update has the section, the lookup key and the column, and its
\* section is one of A, B, C
WellFormedCategorical(u) ==
    /\ HasKeys(u, {"section", "product_name", "column"})
    /\ u.section \in Sections

\* C11: a product-name update whose section is not A, B or C, or that lacks
\* its section, its product name or its column, makes apply_updates raise
\* the validation error.
C11_MalformedCategoricalRejected ==
    (pc_engine = "applied" /\ ~WellFormedCategorical(batch[1]))
        => raised = "ValueError"

\* The normalization as the claim words it: cast to string, trim the
\* surrounding whitespace, strip one trailing '号'.
StatedNormalization(v) ==
    LET name_str == strip(str_of(v))
    IN  IF name_str # <<>> /\ name_str[Len(name_str)] = chHao
        THEN SubSeq(name_str, 1, Len(name_str) - 1)
        ELSE name_str

\* the first pump row of the sheet the update names (row 3, section A)
FirstPumpRowWritten ==
    CellValue(workbook.sheets[batch[1].sheet], 3, 4) = IntV(batch[1].value)

\* C16: the first pump row of section A is matched by a section-A update,
\* and so receives the value, exactly when its column-B value and the
\* update's lookup key are equal after the same normalization (cast to
\* string, trim, strip one trailing '号').
C16_MatchIffNormalizedEqual ==
    (/\ pc_engine = "applied"
     /\ WellFormedCategorical(batch[1])
     /\ batch[1].section = <<chA>>)
        => (FirstPumpRowWritten
               <=> StatedNormalization(CellValue(before.sheets[batch[1].sheet], 3, 2))
                      = StatedNormalization(batch[1].product_name))

chDollar == 36
chPlus == 43
chComma == 44
chMinus == 45
chDot == 46
chDigit9 == 57
chLowerX == 120
chYen == 165
chYuan == 20803

\* a float with at most two decimals, i in hundredths; a dict; a list
FloatV(h) == [t |-> "float", i |-> h, s |-> <<>>]
DictV == [t |-> "dict", i |-> 0, s |-> <<>>]
ListV == [t |-> "list", i |-> 0, s |-> <<>>]

RECURSIVE Dec(_, _)
Dec(m, e) == IF e > 0 /\ m % 10 = 0 THEN Dec(m \div 10, e - 1) ELSE [m |-> m, e |-> e]

IsDigit(c) == c >= chDigit0 /\ c <= chDigit9
IsDigitOrComma(c) == IsDigit(c) \/ c = chComma

\* the end (exclusive) of the longest run of digits, or of digits and
\* commas, that starts at j
RECURSIVE digit_run(_, _)
digit_run(str, j) ==
    IF j <= Len(str) /\ IsDigit(str[j]) THEN digit_run(str, j + 1) ELSE j

RECURSIVE digit_comma_run(_, _)
digit_comma_run(str, j) ==
    IF j <= Len(str) /\ IsDigitOrComma(str[j]) THEN digit_comma_run(str, j + 1) ELSE j

\* [\d,]* gives back its trailing commas for \d+ to match a digit
RECURSIVE give_back(_, _, _)
give_back(str, j, k) ==
    IF k > j /\ str[k - 1] = chComma THEN give_back(str, j, k - 1) ELSE k

\* Variant: the pattern without the sign, [\d,]*\.?\d+
match_end_unsigned(str, i) ==
    LET k == digit_comma_run(str, i)
    IN  IF k + 1 <= Len(str) /\ str[k] = chDot /\ IsDigit(str[k + 1])
        THEN digit_run(str, k + 1)
        ELSE LET e == give_back(str, i, k) IN IF e > i THEN e ELSE 0

\* the end (exclusive) of the match of the pattern that starts at i, 0 when
\* there is none
match_end(str, i) ==
    LET j == IF str[i] \in {chPlus, chMinus} THEN i + 1 ELSE i
        k == digit_comma_run(str, j)
    IN  IF k + 1 <= Len(str) /\ str[k] = chDot /\ IsDigit(str[k + 1])
        THEN digit_run(str, k + 1)
        ELSE LET e == give_back(str, j, k) IN IF e > j THEN e ELSE 0

\* re.findall(pattern, str), from position i
RECURSIVE findall(_, _)
findall(str, i) ==
    IF i > Len(str) THEN <<>>
    ELSE LET e == match_end(str, i)
         IN  IF e = 0 THEN findall(str, i + 1)
             ELSE <<SubSeq(str, i, e - 1)>> \o findall(str, e)

Without(str, chars) == SelectSeq(str, LAMBDA c : c \notin chars)

\* float(token.replace(",", ""))
RECURSIVE float_fold(_, _, _, _, _)
float_fold(tok, k, m, e, after_dot) ==
    IF k > Len(tok) THEN [m |-> m, e |-> e]
    ELSE IF tok[k] = chDot THEN float_fold(tok, k + 1, m, e, TRUE)
    ELSE float_fold(tok, k + 1, m * 10 + (tok[k] - chDigit0),
                    IF after_dot THEN e + 1 ELSE e, after_dot)

float_of(token) ==
    LET tok == Without(token, {chComma})
        signed == tok[1] \in {chPlus, chMinus}
        r == float_fold(tok, IF signed THEN 2 ELSE 1, 0, 0, FALSE)
    IN  Dec(IF tok[1] = chMinus THEN 0 - r.m ELSE r.m, r.e)

\* str.split(sep) for a separator that is not empty
RECURSIVE split_from(_, _, _, _)
split_from(str, sep, i, start) ==
    IF i + Len(sep) - 1 > Len(str) THEN <<SubSeq(str, start, Len(str))>>
    ELSE IF SubSeq(str, i, i + Len(sep) - 1) = sep
         THEN <<SubSeq(str, start, i - 1)>>
              \o split_from(str, sep, i + Len(sep), i + Len(sep))
         ELSE split_from(str, sep, i + 1, start)

split(str, sep) == split_from(str, sep, 1, 1)

Returns(x) == [exc |-> "none", value |-> x]
Raises(exc) == [exc |-> exc, value |-> Dec(0, 0)]
NotFound == [found |-> FALSE, value |-> Dec(0, 0)]

\* lines 49-66: the loop over the segments that end with the unit
RECURSIVE near_unit(_, _)
near_unit(segments, i) ==
    IF i > Len(segments) - 1 THEN NotFound
    ELSE LET current == findall(segments[i], 1)
             next == findall(segments[i + 1], 1)
         IN  IF current # <<>>
             THEN [found |-> TRUE, value |-> float_of(current[Len(current)])]
             ELSE IF next # <<>>
             THEN [found |-> TRUE, value |-> float_of(next[1])]
             ELSE near_unit(segments, i + 1)

\* lines 34-79: the body of the try statement
parse_body(v, u, d) ==
    IF v.t = "int" THEN Returns(Dec(v.i, 0))
    ELSE IF v.t = "float" THEN Returns(Dec(v.i, 2))
    ELSE IF v.t # "str" THEN Returns(d)
    ELSE
    LET cleaned_value == strip(v.s)
        general == findall(Without(cleaned_value, {chSpace, chYen, chDollar}), 1)
        fallback == IF general # <<>> THEN Returns(float_of(general[1]))
                    ELSE Returns(d)
    IN  IF Falsy(u) THEN fallback
        ELSE IF u.t # "str" THEN Raises("TypeError")
        ELSE LET segments == split(cleaned_value, u.s)
                 near == IF Len(segments) > 1 THEN near_unit(segments, 1) ELSE NotFound
             IN  IF near.found THEN Returns(near.value) ELSE fallback

\* Variant: what the body cannot parse comes back as 0.0, whatever the default.
parse_numeric_value_zero(v, u, d) ==
    LET r == parse_body(v, u, Dec(0, 0))
    IN  IF r.exc # "none" THEN Returns(Dec(0, 0)) ELSE r

\* lines 82-84: any exception of the body is logged and the default returned
parse_numeric_value(v, u, d) ==
    LET r == parse_body(v, u, d)
    IN  IF r.exc # "none" THEN Returns(d) ELSE r

(***************************************************************************)
(* One parse_numeric_value call (specification SpecParse).  The strings    *)
(* are built as prefix + number + unit + suffix, with or without the       *)
(* number; the other values are the ones a JSON answer can hold.           *)
(***************************************************************************)
Prefixes ==
    { <<>>, <<chLowerX>>, <<chMinus>>, <<chDot>>, <<chComma>>, <<chPlus>>, <<chYuan>>,
      <<chLowerX, chSpace>>, <<chYen>>, <<chLowerX, chMinus>>, <<chLowerX, chDot>>,
      <<chMinus, chComma>>, <<chYuan, chLowerX>> }

\* the text of a number and the float it denotes, m * 10^-e; plain when the
\* text is not in exponent notation
Numbers ==
    { [text |-> <<53>>, m |-> 5, e |-> 0, plain |-> TRUE],
      [text |-> <<49, 50, chDot, 53>>, m |-> 125, e |-> 1, plain |-> TRUE],
      [text |-> <<chDigit0, chDot, chDigit0, 55>>, m |-> 7, e |-> 2, plain |-> TRUE],
      [text |-> <<49, chComma, 50, 51, 52, chDot, 53>>, m |-> 12345, e |-> 1,
       plain |-> TRUE],
      [text |-> <<chMinus, 51, chDot, 53>>, m |-> 0 - 35, e |-> 1, plain |-> TRUE],
      [text |-> <<49, chLowerE, chMinus, chDigit0, 53>>, m |-> 1, e |-> 5,
       plain |-> FALSE] }

UnitTexts == {<<>>, <<chYuan>>}

Suffixes ==
    { <<>>, <<chLowerX>>, <<chYuan>>, <<chLowerX, chYuan>>, <<54, chYuan>> }

ParseValues ==
    {StrV(pre \o n.text \o u \o suf) :
        pre \in Prefixes, n \in Numbers, u \in UnitTexts, suf \in Suffixes}
    \cup {StrV(pre \o u \o suf) : pre \in Prefixes, u \in UnitTexts, suf \in Suffixes}
    \cup {None, DictV, ListV, IntV(0), IntV(7), FloatV(12345)}

ParseUnits == {None, StrV(<<chYuan>>), IntV(5)}

ParseDefaults == {Dec(0, 0), Dec(0 - 1, 0)}

NotParsed == [exc |-> "pending", value |-> Dec(0, 0)]

InitParse ==
    /\ value \in ParseValues
    /\ unit \in ParseUnits
    /\ default_value \in ParseDefaults
    /\ parsed = NotParsed
    /\ workbook = Template(0, 0)
    /\ before = workbook
    /\ batch = <<>>
    /\ raised = "idle"
    /\ pc_engine = "ready"
    /\ LockIdle
    /\ GuiConstructed
    /\ ExtractIdle
    /\ ColumnIdle
    /\ ConfigIdle
    /\ LifeIdle

ParseNumericValue ==
    /\ parsed = NotParsed
    /\ parsed' = parse_numeric_value(value, unit, default_value)
    /\ UNCHANGED <<value, unit, default_value, engineVars, lockVars, guiVars,
                   extractVars, lifeVars, columnVars, configVars>>

NextParse == ParseNumericValue

SpecParse == InitParse /\ [][NextParse]_vars

NoDigits(str) == \A k \in 1..Len(str) : ~IsDigit(str[k])

\* a value with no number to read: None, a dict, a list, or a string
\* without a digit
Uninterpretable(v) ==
    \/ v.t \in {"none", "dict", "list"}
    \/ (v.t = "str" /\ NoDigits(v.s))

\* C19: parse_numeric_value raises nothing, and for None, a dict, a list, an
\* empty string or a string without a number it returns default_value.
C19_NeverRaisesReturnsDefault ==
    parsed # NotParsed =>
        /\ parsed.exc = "none"
        /\ Uninterpretable(value) => parsed.value = default_value

C19_Witness ==
    /\ parsed # NotParsed
    /\ value = StrV(<<chYuan>>)
    /\ default_value = Dec(0 - 1, 0)
    /\ parsed.value = default_value

HasNone(str, chars) == \A k \in 1..Len(str) : str[k] \notin chars

MaxCalls == 4

Paths == {"output.xlsx", "copy.xlsx"}

LifeBatches ==
    { <<[sheet |-> "TiaoJiaQian", updates |-> <<RowUpdate(AccRow, <<chE>>, 160)>>],
        [sheet |-> "TiaoJiaQian",
         updates |-> <<RowUpdate(AccRow, <<chE>>, 300), RowUpdate(90, <<chC>>, 21)>>]>>,
      <<[sheet |-> "TiaoJiaQian", section |-> <<chA>>, product_name |-> StrV(Text3),
         column |-> <<chD>>, value |-> 31]>>,
      <<[sheet |-> "YouPinYouHuiMingXi2", date |-> 2,
         updates |-> <<ColUpdate(<<chC>>, 41)>>],
        [sheet |-> "WuCiBiao", updates |-> <<RowUpdate(90, <<chC>>, 24)>>]>> }

load_workbook(fs, path) == fs[path]

\* __init__, lines 34-35
ExcelUpdater(fs, path) == [workbook |-> load_workbook(fs, path), output_path |-> path]

\* Variant: reopening keeps the workbook that is in memory.
open_workbook_keeping(self, fs, path) ==
    [workbook |-> self.workbook, output_path |-> path]

\* open_workbook, lines 41-42
open_workbook(self, fs, path) ==
    [workbook |-> load_workbook(fs, path), output_path |-> path]

\* save_workbook, line 55
save_workbook(self, fs) == [fs EXCEPT ![self.output_path] = self.workbook]

\* close_workbook, line 72
close_workbook(self) == self

Self == [workbook |-> workbook, output_path |-> output_path]

\* a call, and whether it left writes in memory that the file does not have
Call(op, wb, fs, path) == [op |-> op, unsaved |-> wb # fs[path]]

InitLife ==
    /\ files \in {[path \in Paths |-> IF path = "output.xlsx" THEN Template(fee, 0)
                                      ELSE Template(0, 7)] : fee \in PriorFees}
    /\ output_path = "output.xlsx"
    /\ workbook = ExcelUpdater(files, output_path).workbook
    /\ before = workbook
    /\ batch = <<>>
    /\ raised = "idle"
    /\ pc_engine = "ready"
    /\ calls = <<>>
    /\ LockIdle
    /\ GuiConstructed
    /\ ParseIdle
    /\ ExtractIdle
    /\ ColumnIdle
    /\ ConfigIdle

LifeApply ==
    /\ Len(calls) < MaxCalls
    /\ \E updates \in LifeBatches :
          LET r == apply_updates(workbook, updates)
          IN  /\ workbook' = r.workbook
              /\ raised' = r.exc
              /\ batch' = updates
              /\ calls' = Append(calls, Call("apply_updates", r.workbook, files, output_path))
    /\ before' = workbook
    /\ pc_engine' = "applied"
    /\ UNCHANGED <<files, output_path, lockVars, guiVars, parseVars, extractVars, columnVars, configVars>>

LifeSave ==
    /\ Len(calls) < MaxCalls
    /\ files' = save_workbook(Self, files)
    /\ calls' = Append(calls, Call("save_workbook", workbook, files', output_path))
    /\ pc_engine' = "saved"
    /\ UNCHANGED <<workbook, before, batch, raised, output_path,
                   lockVars, guiVars, parseVars, extractVars, columnVars, configVars>>

LifeClose ==
    /\ Len(calls) < MaxCalls
    /\ workbook' = close_workbook(Self).workbook
    /\ calls' = Append(calls, Call("close_workbook", workbook', files, output_path))
    /\ pc_engine' = "closed"
    /\ UNCHANGED <<before, batch, raised, files, output_path,
                   lockVars, guiVars, parseVars, extractVars, columnVars, configVars>>

LifeOpen ==
    /\ Len(calls) < MaxCalls
    /\ \E path \in Paths :
          LET self == open_workbook(Self, files, path)
          IN  /\ workbook' = self.workbook
              /\ output_path' = self.output_path
              /\ calls' = Append(calls, Call("open_workbook", self.workbook, files,
                                              self.output_path))
    /\ pc_engine' = "opened"
    /\ UNCHANGED <<before, batch, raised, files,
                   lockVars, guiVars, parseVars, extractVars, columnVars, configVars>>

NextLife == LifeApply \/ LifeSave \/ LifeClose \/ LifeOpen

SpecLife == InitLife /\ [][NextLife]_vars

Op(k) == calls[k].op

\* the last three calls were close_workbook, open_workbook, apply_updates
AppliedAfterReopen ==
    /\ Len(calls) >= 3
    /\ Op(Len(calls) - 2) = "close_workbook"
    /\ Op(Len(calls) - 1) = "open_workbook"
    /\ Op(Len(calls)) = "apply_updates"

\* C14: the first apply_updates after close_workbook and open_workbook(path)
\* leaves the workbook, and raises, as the same batch does on an engine
\* newly constructed on that path, whatever was written, saved or summed
\* before the close.
C14_ReopenedIsFresh ==
    AppliedAfterReopen
        => LET fresh == apply_updates(ExcelUpdater(files, output_path).workbook, batch)
           IN  workbook = fresh.workbook /\ raised = fresh.exc

\* writes that were never saved, among them a handling-fee sum, were in
\* memory when the workbook was closed, and the reopened engine applied a
\* batch that sums handling fees again
C14_Witness ==
    /\ AppliedAfterReopen
    /\ Len(calls) = 4
    /\ Op(1) = "apply_updates"
    /\ calls[2].unsaved
    /\ output_path = "output.xlsx"
    /\ CellValue(workbook.sheets["TiaoJiaQian"], AccRow, AccCol) = IntV(460)

\* close_workbook was called and open_workbook has not been called since
Closed(cs) ==
    \E k \in 1..Len(cs) :
        /\ cs[k].op = "close_workbook"
        /\ \A j \in (k + 1)..Len(cs) : cs[j].op # "open_workbook"

\* C15: from close_workbook until the next open_workbook, no call changes
\* the workbook in memory or the files.
C15_ClosedTakesNoEffect ==
    [][(Closed(calls) /\ Closed(calls')) => UNCHANGED <<workbook, files>>]_vars


(***************************************************************************)
(* The extractors of InvoiceProcessor and TableProcessor.  An amount is an *)
(* integer number of hundredths; the raw texts of this model have at most  *)
(* two decimals, for which a third is never halfway between two            *)
(* hundredths, so that round(x / 3, 2) is the hundredth nearest to x / 3.  *)
(* A dict is a function from its keys; a result is the value returned or   *)
(* the exception raised.                                                   *)
(***************************************************************************)
chH == 72
chP == 80
chQ == 81
chW == 87
chX == 88
chY == 89
chZ == 90
chSheng == 21319

\* shift_config.date.day and shift_config.gas_price (7.50)
day == 2
gas_price == 750

Hundredths(d) == d.m * <<100, 10, 1>>[d.e + 1]

Sheng == StrV(<<chSheng>>)
Yuan == StrV(<<chYuan>>)

\* the unit each extractor passes to parse_numeric_value for a key
unit_of(cat, key) ==
    IF key \in {"ChaiYouTongJi", "JiaYouShengShuHuiZong"} THEN Sheng
    ELSE IF cat \in {"HuoCheBang", "TuanYou"} THEN Yuan
    ELSE None

\* parse_numeric_value(processed_data[key], unit=...) for every key of the
\* dict, as hundredths; the extractors read the amounts they need from it
amounts_of(d, cat) ==
    [key \in DOMAIN d |->
        Hundredths(parse_numeric_value(d[key], unit_of(cat, key), Dec(0, 0)).value)]

\* Variant: the third is cut off after two decimals.
round_third_truncating(n) == n \div 3

\* round(x / 3, 2)
round_third(n) == (n + 1) \div 3

\* round(x / gas_price / 3, 2), x > 0
round_quantity_third(n) == (200 * n + 3 * gas_price) \div (6 * gas_price)

Returned_(d) == [exc |-> "none", value |-> d]
Raised_(exc) == [exc |-> exc, value |-> <<>>]

PriceUpdate(row_updates) == [sheet |-> "TiaoJiaQian", updates |-> row_updates]
DetailUpdate(col_updates) ==
    [sheet |-> "YouPinYouHuiMingXi2", date |-> day, updates |-> col_updates]

Extracted(updates, p) == Returned_([updates |-> updates, processed_data |-> p])

_process_huochebang(d, n) ==
    IF ~({"ChaiYouTongJi", "YouZhanZhiJiang", "YouZhanZheKou", "FuWuFei", "JieSuanJinE"}
            \subseteq DOMAIN d)
    THEN Raised_("KeyError")
    ELSE
    LET diesel_stats == n["ChaiYouTongJi"]
        direct_discount == n["YouZhanZhiJiang"]
        station_discount == n["YouZhanZheKou"]
        diesel_discount == direct_discount + station_discount
        handling_fee == n["FuWuFei"]
        settlement_amount == n["JieSuanJinE"]
        p == [diesel_stats |-> round_third(diesel_stats),
              diesel_discount |-> round_third(diesel_discount),
              handling_fee |-> round_third(handling_fee),
              settlement_amount |-> round_third(settlement_amount)]
    IN  Extracted(<<PriceUpdate(<<RowUpdate(81, <<chE>>, p.handling_fee),
                                  RowUpdate(90, <<chC>>, p.settlement_amount)>>),
                    DetailUpdate(<<ColUpdate(<<chA, chA>>, p.diesel_stats),
                                   ColUpdate(<<chA, chB>>, p.diesel_discount)>>)>>, p)

_process_didijia(d, n) ==
    IF ~({"YouPinShuLiang", "YouPinYouHuiHeJi", "YouPinYuShouJinE", "YouPinYingShouJinE"}
            \subseteq DOMAIN d)
    THEN Raised_("KeyError")
    ELSE
    LET gas_stats == n["YouPinShuLiang"]
        gas_discount == n["YouPinYouHuiHeJi"]
        handling_fee == n["YouPinYuShouJinE"]
                           - n["YouPinYingShouJinE"]
        settlement_amount == n["YouPinYingShouJinE"]
        p == [gas_stats |-> round_third(gas_stats),
              gas_discount |-> round_third(gas_discount),
              handling_fee |-> round_third(handling_fee),
              settlement_amount |-> round_third(settlement_amount)]
    IN  Extracted(<<PriceUpdate(<<RowUpdate(81, <<chE>>, p.handling_fee),
                                  RowUpdate(88, <<chC>>, p.settlement_amount)>>),
                    DetailUpdate(<<ColUpdate(<<chP>>, p.gas_stats),
                                   ColUpdate(<<chQ>>, p.gas_discount)>>)>>, p)

\* Variant: both categories write the cell of 国通1.
_process_guotong_same_cell(d, n, cat) ==
    IF ~({"DingDanJinE", "TuiKuanDingDanJinE"} \subseteq DOMAIN d)
    THEN Raised_("KeyError")
    ELSE
    LET settlement_amount == n["DingDanJinE"]
                                - n["TuiKuanDingDanJinE"]
        p == [settlement_amount |-> round_third(settlement_amount)]
    IN  IF cat \in {"GuoTong1", "GuoTong2"}
        THEN Extracted(<<PriceUpdate(<<RowUpdate(92, <<chH>>, p.settlement_amount)>>)>>, p)
        ELSE Raised_("ValueError")

_process_guotong(d, n, cat) ==
    IF ~({"DingDanJinE", "TuiKuanDingDanJinE"} \subseteq DOMAIN d)
    THEN Raised_("KeyError")
    ELSE
    LET settlement_amount == n["DingDanJinE"]
                                - n["TuiKuanDingDanJinE"]
        p == [settlement_amount |-> round_third(settlement_amount)]
    IN  IF cat = "GuoTong1"
        THEN Extracted(<<PriceUpdate(<<RowUpdate(92, <<chH>>, p.settlement_amount)>>)>>, p)
        ELSE IF cat = "GuoTong2"
        THEN Extracted(<<PriceUpdate(<<RowUpdate(93, <<chH>>, p.settlement_amount)>>)>>, p)
        ELSE Raised_("ValueError")

_process_tuanyou(d, n) ==
    IF ~({"JiaYouShengShuHuiZong", "TongDaoFeiHuiZong", "ShiJiJieSuanJinEHuiZong",
          "JiaYouJinEHuiZong"} \subseteq DOMAIN d)
    THEN Raised_("KeyError")
    ELSE
    LET gas_stats == n["JiaYouShengShuHuiZong"]
        handling_fee == n["TongDaoFeiHuiZong"]
        settlement_amount == n["ShiJiJieSuanJinEHuiZong"]
        gas_discount == n["JiaYouJinEHuiZong"]
                           - settlement_amount - handling_fee
        p == [gas_stats |-> round_third(gas_stats),
              gas_discount |-> round_third(gas_discount),
              handling_fee |-> round_third(handling_fee),
              settlement_amount |-> round_third(settlement_amount)]
    IN  Extracted(<<PriceUpdate(<<RowUpdate(81, <<chE>>, p.handling_fee),
                                  RowUpdate(89, <<chC>>, p.settlement_amount)>>),
                    DetailUpdate(<<ColUpdate(<<chW>>, p.gas_stats),
                                   ColUpdate(<<chX>>, p.gas_discount)>>)>>, p)

_process_pos(d, n) ==
    IF "JieSuanZongJinE" \notin DOMAIN d THEN Raised_("KeyError")
    ELSE
    LET p == [settlement_amount |-> round_third(n["JieSuanZongJinE"])]
    IN  Extracted(<<PriceUpdate(<<RowUpdate(80, <<chE>>, p.settlement_amount)>>)>>, p)

_process_supermarket(d, n) ==
    IF "XianJin" \notin DOMAIN d THEN Raised_("KeyError")
    ELSE
    LET p == [settlement_amount |-> round_third(n["XianJin"])]
    IN  Extracted(<<PriceUpdate(<<RowUpdate(71, <<chH>>, p.settlement_amount)>>)>>, p)

_process_douyin(d, n) ==
    IF ~({"YongHuCeHuaXianJiaHeJi", "DingDanShiShouHeJi", "YuJiShouRuHeJi"}
            \subseteq DOMAIN d)
    THEN Raised_("KeyError")
    ELSE
    LET total_voucher_value == n["YongHuCeHuaXianJiaHeJi"]
        total_received == n["DingDanShiShouHeJi"]
        total_merchant_revenue == n["YuJiShouRuHeJi"]
        total_discount == total_voucher_value - total_received
        handling_fee == total_received - total_merchant_revenue
        p == [gas_quantity |-> IF gas_price > 0
                               THEN round_quantity_third(total_voucher_value)
                               ELSE 0,
              total_discount |-> round_third(total_discount),
              handling_fee |-> round_third(handling_fee),
              merchant_revenue |-> round_third(total_merchant_revenue)]
    IN  Extracted(<<PriceUpdate(<<RowUpdate(81, <<chE>>, p.handling_fee),
                                  RowUpdate(93, <<chC>>, p.merchant_revenue)>>),
                    DetailUpdate(<<ColUpdate(<<chA, chY>>, p.gas_quantity),
                                   ColUpdate(<<chA, chZ>>, p.total_discount)>>)>>, p)

\* the dispatch of lines 88-107; result is unbound for any other category
dispatch(d, n, cat) ==
    IF cat = "HuoCheBang" THEN _process_huochebang(d, n)
    ELSE IF cat = "DiDiJiaYou" THEN _process_didijia(d, n)
    ELSE IF cat \in {"GuoTong1", "GuoTong2"} THEN _process_guotong(d, n, cat)
    ELSE IF cat = "TuanYou" THEN _process_tuanyou(d, n)
    ELSE IF cat = "POS" THEN _process_pos(d, n)
    ELSE IF cat = "ChaoShiXiaoShouShouRu" THEN _process_supermarket(d, n)
    ELSE IF cat = "DouYin" THEN _process_douyin(d, n)
    ELSE Raised_("UnboundLocalError")

\* lines 109-111: whatever was raised is logged and the raw dict returned
except_return_data(r, d) == IF r.exc # "none" THEN Returned_(d) ELSE r

_post_process_json(d, cat) ==
    except_return_data(dispatch(d, amounts_of(d, cat), cat), d)

\* process_invoice, lines 336-428.  answer is what came of the image and of
\* the service: no image, no response, or the JSON value of the response.
process_invoice(answer, cat) ==
    IF answer.kind # "dict" \/ answer.fields = <<>> THEN Raised_("ValueError")
    ELSE _post_process_json(answer.fields, cat)

RECURSIVE income_sum(_, _)
income_sum(rows, k) ==
    IF k > Len(rows) THEN 0
    ELSE (IF rows[k].direction = "ShouRu" THEN rows[k].amount ELSE 0)
            + income_sum(rows, k + 1)

\* TableProcessor._process_tonglian on the rows read from the table
_process_tonglian(rows) ==
    LET income == income_sum(rows, 1)
        p == [income |-> round_third(income)]
    IN  Extracted(<<PriceUpdate(<<RowUpdate(86, <<chC>>, p.income)>>)>>, p)


(***************************************************************************)
(* One extraction in a run of the window (specification SpecExtract): the  *)
(* worker of one category runs process_invoice on what the vision service  *)
(* answered, or _process_tonglian on the rows of the 通联 table, and        *)
(* reports to the window, while the worker of a second category is in      *)
(* flight.  Init is the window after _process_all_files started both.      *)
(***************************************************************************)
ImageCategories ==
    {"HuoCheBang", "DiDiJiaYou", "GuoTong1", "GuoTong2", "TuanYou", "POS",
     "ChaoShiXiaoShouShouRu", "DouYin"}

TongLian == "TongLian"

\* the keys each extractor reads
Required(cat) ==
    IF cat = "HuoCheBang"
    THEN {"ChaiYouTongJi", "YouZhanZhiJiang", "YouZhanZheKou", "FuWuFei", "JieSuanJinE"}
    ELSE IF cat = "DiDiJiaYou"
    THEN {"YouPinShuLiang", "YouPinYouHuiHeJi", "YouPinYuShouJinE", "YouPinYingShouJinE"}
    ELSE IF cat \in {"GuoTong1", "GuoTong2"} THEN {"DingDanJinE", "TuiKuanDingDanJinE"}
    ELSE IF cat = "TuanYou"
    THEN {"JiaYouShengShuHuiZong", "TongDaoFeiHuiZong", "ShiJiJieSuanJinEHuiZong",
          "JiaYouJinEHuiZong"}
    ELSE IF cat = "POS" THEN {"JieSuanZongJinE"}
    ELSE IF cat = "ChaoShiXiaoShouShouRu" THEN {"XianJin"}
    ELSE {"YongHuCeHuaXianJiaHeJi", "DingDanShiShouHeJi", "YuJiShouRuHeJi"}

\* '131.45 元', '1000.00', '100.00'
Text131_45Yuan == <<49, 51, 49, chDot, 52, 53, chSpace, chYuan>>
Text1000_00 == <<49, chDigit0, chDigit0, chDigit0, chDot, chDigit0, chDigit0>>
Text100_00 == <<49, chDigit0, chDigit0, chDot, chDigit0, chDigit0>>

\* what the service answers for a field: a text of the schema, or null
RawValues(cat) ==
    IF cat \in {"GuoTong1", "GuoTong2"}
    THEN {StrV(Text131_45Yuan), StrV(Text1000_00), StrV(Text100_00), None}
    ELSE {StrV(Text131_45Yuan), StrV(Text1000_00), None}

Dict(d) == [kind |-> "dict", fields |-> d, rows |-> <<>>]
NoResponse == [kind |-> "no response", fields |-> <<>>, rows |-> <<>>]
Table(rows) == [kind |-> "table", fields |-> <<>>, rows |-> rows]

\* the answers of the service for a category: nothing, a dict with every
\* key of the schema, or one that lacks one of them
Answers(cat) ==
    {NoResponse}
    \cup {Dict(d) : d \in [Required(cat) -> RawValues(cat)]}
    \cup UNION {{Dict(d) : d \in [Required(cat) \ {k} -> RawValues(cat)]} :
                   k \in Required(cat)}

TableRows == [amount : {13145, 100000}, direction : {"ShouRu", "ZhiChu"}]

NotProcessed == [exc |-> "pending", value |-> <<>>]

OtherCategory == "YouPinYouHui"

Worker(cat) == [run |-> 1, category |-> cat]

InitExtract ==
    /\ invoice_category \in ImageCategories \cup {TongLian}
    /\ data \in IF invoice_category = TongLian
                THEN {Table(rows) : rows \in SeqsUpTo(TableRows, 2)}
                ELSE Answers(invoice_category)
    /\ result = NotProcessed
    /\ uploaded_files = {invoice_category, OtherCategory, OutputTable}
    /\ processing_status =
          [c \in {invoice_category, OtherCategory, OutputTable} |->
              IF c = OutputTable THEN Uploaded ELSE Processing]
    /\ processing_results =
          [c \in {invoice_category, OtherCategory, OutputTable} |-> NoResult]
    /\ pending_updates = <<>>
    /\ is_processing = TRUE
    /\ timer_active = TRUE
    /\ running = {Worker(invoice_category), Worker(OtherCategory)}
    /\ update_workers = {}
    /\ run = 1
    /\ started_updates = <<>>
    /\ workbook = Template(0, 0)
    /\ before = workbook
    /\ batch = <<>>
    /\ raised = "idle"
    /\ pc_engine = "ready"
    /\ LockIdle
    /\ ParseIdle
    /\ ColumnIdle
    /\ ConfigIdle
    /\ LifeIdle

\* ProcessingWorker.run up to the signal it emits
ProcessingWorker_run ==
    /\ result = NotProcessed
    /\ invoice_category \in ImageCategories
    /\ result' = process_invoice(data, invoice_category)
    /\ UNCHANGED <<invoice_category, data, engineVars, lockVars, guiVars, parseVars,
                   lifeVars, columnVars, configVars>>

\* TableProcessingWorker.run up to the signal it emits
TableProcessingWorker_run ==
    /\ result = NotProcessed
    /\ invoice_category = TongLian
    /\ result' = _process_tonglian(data.rows)
    /\ UNCHANGED <<invoice_category, data, engineVars, lockVars, guiVars, parseVars,
                   lifeVars, columnVars, configVars>>

\* the worker emits error or finished, and the window handles the signal
WorkerEmits ==
    /\ result # NotProcessed
    /\ IF result.exc # "none"
       THEN _handle_processing_error(Worker(invoice_category))
       ELSE HandleComplete(Worker(invoice_category), "updates" \in DOMAIN result.value)

OtherWorkerFinished == _handle_processing_complete(Worker(OtherCategory))
OtherWorkerError == _handle_processing_error(Worker(OtherCategory))

NextExtract ==
    \/ ProcessingWorker_run
    \/ TableProcessingWorker_run
    \/ WorkerEmits
    \/ OtherWorkerFinished
    \/ OtherWorkerError
    \/ _check_and_apply_updates
    \/ UpdateWorkerRuns
    \/ UpdateWorkerReports

SpecExtract == InitExtract /\ [][NextExtract]_vars

\* the answer is a dict that lacks a key the extractor of the category reads
LacksRequiredField ==
    /\ data.kind = "dict"
    /\ ~(Required(invoice_category) \subseteq DOMAIN data.fields)

Reported == result # NotProcessed /\ Worker(invoice_category) \notin running

\* C13: when the answer lacks a field the extractor requires, the category
\* ends as failed, never as done, and none of its instructions is pending.
C13_MissingFieldFailsCategory ==
    (LacksRequiredField /\ Reported)
        => /\ processing_status[invoice_category] = Failed
           /\ ~InBatch(Worker(invoice_category))

\* the extractor returned its updates and its processed mapping
HasExtracted == result.exc = "none" /\ "updates" \in DOMAIN result.value

\* the cell that receives the settlement amount of a category, the key of
\* that amount in the processed mapping, and the raw total it is a third of
SettlementCell(cat) ==
    IF cat = "HuoCheBang" THEN [row |-> 90, column |-> <<chC>>]
    ELSE IF cat = "DiDiJiaYou" THEN [row |-> 88, column |-> <<chC>>]
    ELSE IF cat = "GuoTong1" THEN [row |-> 92, column |-> <<chH>>]
    ELSE IF cat = "GuoTong2" THEN [row |-> 93, column |-> <<chH>>]
    ELSE IF cat = "TuanYou" THEN [row |-> 89, column |-> <<chC>>]
    ELSE IF cat = "POS" THEN [row |-> 80, column |-> <<chE>>]
    ELSE IF cat = "ChaoShiXiaoShouShouRu" THEN [row |-> 71, column |-> <<chH>>]
    ELSE IF cat = "DouYin" THEN [row |-> 93, column |-> <<chC>>]
    ELSE [row |-> 86, column |-> <<chC>>]

SettlementKey(cat) ==
    IF cat = "DouYin" THEN "merchant_revenue"
    ELSE IF cat = TongLian THEN "income"
    ELSE "settlement_amount"

RawTotalOf(cat, n, rows) ==
    IF cat = "HuoCheBang" THEN n["JieSuanJinE"]
    ELSE IF cat = "DiDiJiaYou" THEN n["YouPinYingShouJinE"]
    ELSE IF cat \in {"GuoTong1", "GuoTong2"}
    THEN n["DingDanJinE"] - n["TuiKuanDingDanJinE"]
    ELSE IF cat = "TuanYou" THEN n["ShiJiJieSuanJinEHuiZong"]
    ELSE IF cat = "POS" THEN n["JieSuanZongJinE"]
    ELSE IF cat = "ChaoShiXiaoShouShouRu" THEN n["XianJin"]
    ELSE IF cat = "DouYin" THEN n["YuJiShouRuHeJi"]
    ELSE income_sum(rows, 1)

RawTotal(cat, answer) == RawTotalOf(cat, amounts_of(answer.fields, cat), answer.rows)

\* the values the instructions of the result write to a cell of 调价前
WrittenTo(cell) ==
    LET updates == result.value.updates
    IN  {updates[i].updates[k].value :
            <<i, k>> \in {p \in (1..Len(updates)) \X (1..2) :
                            /\ updates[p[1]].sheet = "TiaoJiaQian"
                            /\ p[2] <= Len(updates[p[1]].updates)
                            /\ updates[p[1]].updates[p[2]].row = cell.row
                            /\ updates[p[1]].updates[p[2]].column = cell.column}}

\* v hundredths is x / 3 rounded to two decimals, for x of n hundredths
IsThirdRounded(v, n) == 3 * v - n \in {0 - 1, 0, 1}

\* C17: the settlement amount an extractor writes is the raw total divided
\* by three and rounded to two decimals, and the processed mapping holds the
\* same figure as the instruction.
C17_ThirdOfRawTotal ==
    HasExtracted =>
        \E v \in WrittenTo(SettlementCell(invoice_category)) :
            /\ WrittenTo(SettlementCell(invoice_category)) = {v}
            /\ IsThirdRounded(v, RawTotal(invoice_category, data))
            /\ result.value.processed_data[SettlementKey(invoice_category)] = v

\* raw 131.45 is written as 43.82
C17_Witness ==
    /\ HasExtracted
    /\ invoice_category = "HuoCheBang"
    /\ data.fields["JieSuanJinE"] = StrV(Text131_45Yuan)
    /\ WrittenTo(SettlementCell(invoice_category)) = {4382}
    /\ Reported

\* C18: the extractor of 国通1 and of 国通2 emits one instruction with one
\* cell update, whose value is (order amount - refund amount) / 3 rounded to
\* two decimals and is processed['settlement_amount']; 国通1 writes H92 and
\* 国通2 writes H93.
C18_OrderMinusRefund ==
    (HasExtracted /\ invoice_category \in {"GuoTong1", "GuoTong2"}) =>
        LET updates == result.value.updates
        IN  /\ Len(updates) = 1
            /\ Len(updates[1].updates) = 1
            /\ updates[1].sheet = "TiaoJiaQian"
            /\ updates[1].updates[1].value = result.value.processed_data.settlement_amount
            /\ IsThirdRounded(updates[1].updates[1].value,
                              RawTotal(invoice_category, data))
            /\ updates[1].updates[1].column = <<chH>>
            /\ updates[1].updates[1].row = IF invoice_category = "GuoTong1" THEN 92 ELSE 93

\* 1000.00 and 100.00 give 300.0
C18_Witness ==
    /\ HasExtracted
    /\ invoice_category = "GuoTong2"
    /\ data.fields["DingDanJinE"] = StrV(Text1000_00)
    /\ data.fields["TuiKuanDingDanJinE"] = StrV(Text100_00)
    /\ result.value.updates[1].updates[1] = RowUpdate(93, <<chH>>, 30000)

(***************************************************************************)
(* _get_column_index on the column labels (specification SpecColumn): one  *)
(* call on each label of one or two letters A..Z, the labels the docstring *)
(* names (lines 221-222).                                                  *)
(***************************************************************************)
Letters == chA..chZ

Labels == {<<a>> : a \in Letters} \cup {<<a, b>> : a \in Letters, b \in Letters}

NotCalled == 0 - 1

InitColumn ==
    /\ column \in Labels
    /\ col_index = NotCalled
    /\ workbook = Template(0, 0)
    /\ before = workbook
    /\ batch = <<>>
    /\ raised = "idle"
    /\ pc_engine = "ready"
    /\ LockIdle
    /\ GuiConstructed
    /\ ParseIdle
    /\ ExtractIdle
    /\ ConfigIdle
    /\ LifeIdle

GetColumnIndex ==
    /\ col_index = NotCalled
    /\ col_index' = get_column_index(column)
    /\ UNCHANGED <<column, engineVars, lockVars, guiVars, parseVars, extractVars,
                   lifeVars, configVars>>

NextColumn == GetColumnIndex

SpecColumn == InitColumn /\ [][NextColumn]_vars

\* the value of a letter as a base-26 digit: A = 1 .. Z = 26
DigitValue(c) == c - chA + 1

\* the index as the claim states it: the digits weighted by the powers of
\* 26, minus one
StatedIndex(label) ==
    IF Len(label) = 1 THEN DigitValue(label[1]) - 1
    ELSE DigitValue(label[1]) * 26 + DigitValue(label[2]) - 1

\* the index of ZZ
LastIndex == 26 * 26 + 26 - 1

ColumnImage == {get_column_index(label) : label \in Labels}

\* C21: _get_column_index maps a label of one or two letters to the
\* zero-based index of base 26 with A = 1 .. Z = 26, minus one (A -> 0,
\* Z -> 25, AA -> 26, AZ -> 51); no other label has the same index, and the
\* indices of the labels are exactly 0..701.
C21_ColumnIndexIsBijective ==
    col_index # NotCalled =>
        /\ col_index = StatedIndex(column)
        /\ column = <<chA>> => col_index = 0
        /\ column = <<chZ>> => col_index = 25
        /\ column = <<chA, chA>> => col_index = 26
        /\ column = <<chA, chZ>> => col_index = 51
        /\ \A other \in Labels :
              get_column_index(other) = col_index => other = column
        /\ col_index \in 0..LastIndex
        /\ LastIndex = 701
        /\ ColumnImage = 0..LastIndex

C21_Witness ==
    /\ column = <<chZ, chZ>>
    /\ col_index = 701

(***************************************************************************)
(* ShiftConfig (src/src/config/shift_config.py) and the controls of the    *)
(* main window that edit it (specification SpecConfig).                    *)
(* A date or a datetime is a tagged value whose number is the day (a       *)
(* datetime is a date: isinstance(datetime, date) holds); a price is a     *)
(* float in hundredths, or the float nan, for which every comparison is    *)
(* False.  bool is a subclass of int.                                      *)
(***************************************************************************)
DateV(d) == [t |-> "date", i |-> d, s |-> <<>>]
DateTimeV(d) == [t |-> "datetime", i |-> d, s |-> <<>>]
BoolV(b) == [t |-> "bool", i |-> IF b THEN 1 ELSE 0, s |-> <<>>]
NaN == [t |-> "nan", i |-> 0, s |-> <<>>]

\* isinstance(v, date), isinstance(v, datetime), isinstance(v, (int, float))
is_date(v) == v.t \in {"date", "datetime"}
is_datetime(v) == v.t = "datetime"
is_number(v) == v.t \in {"int", "bool", "float", "nan"}

\* v <= 0 and v > 0 on numbers
le_zero(v) == v.t # "nan" /\ v.i <= 0
gt_zero(v) == v.t # "nan" /\ v.i > 0

Config(d, w, sh, p) ==
    [date |-> d, work_start_time |-> w, shift_time |-> sh, gas_price |-> p]

NoConfig == Config(None, None, None, None)

\* ShiftConfig(date, work_start_time, shift_time, gas_price): the dataclass
\* __init__ stores the four fields and calls __post_init__ (lines 13-24)
ShiftConfig(d, w, sh, p) ==
    IF ~is_date(d) THEN [exc |-> "ValueError", config |-> NoConfig]
    ELSE IF ~is_datetime(w) THEN [exc |-> "ValueError", config |-> NoConfig]
    ELSE IF ~is_datetime(sh) THEN [exc |-> "ValueError", config |-> NoConfig]
    ELSE IF ~is_number(p) THEN [exc |-> "ValueError", config |-> NoConfig]
    ELSE IF le_zero(p) THEN [exc |-> "ValueError", config |-> NoConfig]
    ELSE [exc |-> "none", config |-> Config(d, w, sh, p)]

\* the arguments a caller can pass
DateArgs == {DateV(1), DateTimeV(1), StrV(<<49>>), None}
TimeArgs == {DateTimeV(1), DateV(1), None}
PriceArgs == {FloatV(823), IntV(8), BoolV(TRUE), BoolV(FALSE), FloatV(0),
              FloatV(0 - 823), NaN, StrV(<<56>>), None}

\* what the controls can hand to the handlers: QDateEdit and QDateTimeEdit
\* give dates and datetimes; valueChanged of the price box gives a float
Days == {1, 2}
Prices == {0 - 100, 0, 750, 823}

DefaultPrice == 823

NoWorker == [phase |-> "none", args |-> NoConfig, made |-> [exc |-> "none", config |-> NoConfig]]

InitConfig ==
    /\ selected = Config(DateV(1), DateTimeV(1), DateTimeV(1), FloatV(DefaultPrice))
    /\ init_worker = NoWorker
    /\ processors = <<>>
    /\ constructed = <<>>
    /\ workbook = Template(0, 0)
    /\ before = workbook
    /\ batch = <<>>
    /\ raised = "idle"
    /\ pc_engine = "ready"
    /\ LockIdle
    /\ GuiConstructed
    /\ ParseIdle
    /\ ExtractIdle
    /\ ColumnIdle
    /\ LifeIdle

otherThanConfig ==
    <<engineVars, lockVars, guiVars, parseVars, extractVars, lifeVars, columnVars>>

\* the argument lists of a direct construction: every value for one
\* argument, the other three being well typed
Constructions ==
    {<<d, DateTimeV(1), DateTimeV(2), FloatV(DefaultPrice)>> : d \in DateArgs}
    \cup {<<DateV(1), w, DateTimeV(2), FloatV(DefaultPrice)>> : w \in TimeArgs}
    \cup {<<DateV(1), DateTimeV(1), sh, FloatV(DefaultPrice)>> : sh \in TimeArgs}
    \cup {<<DateV(1), DateTimeV(1), DateTimeV(2), p>> : p \in PriceArgs}
    \cup {<<None, None, None, p>> : p \in PriceArgs}

\* a direct construction, by any caller
Construct ==
    /\ constructed = <<>>
    /\ \E a \in Constructions :
          constructed' = <<[args |-> Config(a[1], a[2], a[3], a[4]),
                            made |-> ShiftConfig(a[1], a[2], a[3], a[4])]>>
    /\ UNCHANGED <<selected, init_worker, processors, otherThanConfig>>

\* _handle_table_upload for the output table, lines 914-940: the worker is
\* given the values of the controls as they are now.  The operator uploads
\* an output table when no initialization is under way.
UploadOutputTable ==
    /\ init_worker.phase = "none"
    /\ init_worker' = [NoWorker EXCEPT !.phase = "started", !.args = selected]
    /\ UNCHANGED <<selected, processors, constructed, otherThanConfig>>

\* TableInitializationWorker.run, lines 158-171
TableInitializationWorker_run ==
    /\ init_worker.phase = "started"
    /\ init_worker' =
          [init_worker EXCEPT
              !.phase = "emitted",
              !.made = ShiftConfig(init_worker.args.date,
                                   init_worker.args.work_start_time,
                                   init_worker.args.shift_time,
                                   init_worker.args.gas_price)]
    /\ UNCHANGED <<selected, processors, constructed, otherThanConfig>>

\* _handle_initialization_complete, lines 963-986
_handle_initialization_complete ==
    /\ init_worker.phase = "emitted"
    /\ processors' = IF init_worker.made.exc = "none"
                     THEN <<init_worker.made.config>>
                     ELSE processors
    /\ init_worker' = NoWorker
    /\ UNCHANGED <<selected, constructed, otherThanConfig>>

\* _update_processors_config, lines 1776-1796, for the settings sel: the
\* processors, if there are any, get the new config; an error of the
\* construction is shown and nothing changes
update_processors_config(sel) ==
    LET made == ShiftConfig(sel.date, sel.work_start_time, sel.shift_time,
                            sel.gas_price)
    IN  IF made.exc = "none" /\ processors # <<>>
        THEN <<made.config>>
        ELSE processors

\* the window has an output table once one was uploaded
HasOutputTable == init_worker.phase # "none" \/ processors # <<>>

Edit(sel) ==
    /\ selected' = sel
    /\ processors' = IF HasOutputTable THEN update_processors_config(sel)
                     ELSE processors
    /\ UNCHANGED <<init_worker, constructed, otherThanConfig>>

\* _on_date_changed, lines 1737-1748: the two time selectors are set to the
\* new date, which runs the two handlers below
_on_date_changed ==
    \E new_date \in Days :
        Edit([selected EXCEPT !.date = DateV(new_date),
                              !.work_start_time = DateTimeV(new_date),
                              !.shift_time = DateTimeV(new_date)])

\* _on_shift_time_changed, lines 1750-1755
_on_shift_time_changed ==
    \E new_datetime \in Days :
        Edit([selected EXCEPT !.shift_time = DateTimeV(new_datetime)])

\* _on_work_start_time_changed, lines 1757-1762
_on_work_start_time_changed ==
    \E new_datetime \in Days :
        Edit([selected EXCEPT !.work_start_time = DateTimeV(new_datetime)])

\* _on_gas_price_changed, lines 1764-1774
on_gas_price_changed(new_price) ==
    IF new_price <= 0
    THEN UNCHANGED vars
    ELSE Edit([selected EXCEPT !.gas_price = FloatV(new_price)])

_on_gas_price_changed == \E new_price \in Prices : on_gas_price_changed(new_price)

NextConfig ==
    \/ Construct
    \/ UploadOutputTable
    \/ TableInitializationWorker_run
    \/ _handle_initialization_complete
    \/ _on_date_changed
    \/ _on_shift_time_changed
    \/ _on_work_start_time_changed
    \/ _on_gas_price_changed

SpecConfig == InitConfig /\ [][NextConfig]_vars

\* the arguments ShiftConfig is documented to take: a date, two datetimes
\* and a price greater than 0
ValidArguments(a) ==
    /\ is_date(a.date)
    /\ is_datetime(a.work_start_time)
    /\ is_datetime(a.shift_time)
    /\ is_number(a.gas_price)
    /\ gt_zero(a.gas_price)

\* C22: a ShiftConfig is constructed exactly when date, work_start_time and
\* shift_time have their types and gas_price is a number greater than 0,
\* and the construction raises otherwise; whatever the operator edits, the
\* price of the window and of the config the processors hold is greater
\* than 0.
C22_ConfigPriceIsPositive ==
    /\ constructed # <<>> =>
          (constructed[1].made.exc = "none" <=> ValidArguments(constructed[1].args))
    /\ constructed # <<>> =>
          (constructed[1].made.exc = "none" =>
              constructed[1].made.config = constructed[1].args)
    /\ gt_zero(selected.gas_price)
    /\ processors # <<>> => gt_zero(processors[1].gas_price)

\* the same for the window only: the handlers never leave a price that is
\* not greater than 0, in the window or in the processors
WindowPriceIsPositive ==
    /\ gt_zero(selected.gas_price)
    /\ processors # <<>> => ValidArguments(processors[1])

(***************************************************************************)
(* More claims about apply_updates (specification SpecEngine)              *)
(***************************************************************************)
\* the longest prefix of the batch whose updates all pass validation: the
\* updates the loop reaches before it raises
RECURSIVE ValidPrefix(_, _, _)
ValidPrefix(wb, updates, k) ==
    IF k > Len(updates) \/ ~validate_update(wb, updates[k])
    THEN SubSeq(updates, 1, k - 1)
    ELSE ValidPrefix(wb, updates, k + 1)

Modified(s) ==
    {q \in CellsOf(before.sheets[s]) \cup CellsOf(workbook.sheets[s]) :
        CellValue(workbook.sheets[s], q[1], q[2]) # CellValue(before.sheets[s], q[1], q[2])}

\* C23: apply_updates, whether it returns or raises, leaves the list of
\* sheet names as it was, in the same order, and modifies no cell other
\* than those its instructions address: the given row and column, the given
\* column of the matched row of the section, the listed columns of the
\* matched date row.
C23_OnlyAddressedCellsChange ==
    Applied =>
        /\ workbook.sheetnames = before.sheetnames
        /\ DOMAIN workbook.sheets = DOMAIN before.sheets
        /\ LET ws == BatchWrites(before, ValidPrefix(before, batch, 1), 1)
           IN  \A s \in SheetNames(before) :
                  \A q \in Modified(s) : <<s, q[1], q[2]>> \in Addressed(ws)

C23_Witness ==
    /\ Returned
    /\ Len(batch) = 3
    /\ IsRowUpdate(batch[1])
    /\ IsSectionUpdate(batch[2])
    /\ IsDateUpdate(batch[3])
    /\ \A k \in 1..3 : Writes(before, batch[k]) # <<>>
    /\ Modified("TiaoJiaQian") # {}
    /\ Modified(DateSheet) # {}
    /\ CellValue(workbook.sheets["TiaoJiaQian"], 5, 4) = IntV(11)
    /\ CellValue(workbook.sheets[DateSheet], 4, 3) = None

(***************************************************************************)
(* The two row scans (specification SpecScan): one apply_updates call with *)
(* one product-name update or one date update, on a workbook whose price   *)
(* sheets or whose detail sheet hold any arrangement of markers, pump      *)
(* numbers and days in the rows the scans read.  Row 2 of a price sheet    *)
(* and row 1 of the detail sheet are header rows that hold a value the     *)
(* lookup could match.                                                     *)
(***************************************************************************)
MaxScanRow == 5

ScanRows == 3..MaxScanRow

Markers == {None, StrV(<<chA>>), StrV(<<chB, chSpace>>)}
PumpNumbers == {None, StrV(Text3Hao), IntV(4)}

ScanPriceSheet(markers, keys) ==
    LET held == {<<2, 1>>, <<2, 2>>}
                \cup {<<r, 1>> : r \in {q \in ScanRows : markers[q] # None}}
                \cup {<<r, 2>> : r \in {q \in ScanRows : keys[q] # None}}
    IN  [max_row |-> MaxScanRow, max_column |-> 8,
         cells |-> [q \in held |->
                       IF q = <<2, 1>> THEN StrV(<<chA>>)
                       ELSE IF q = <<2, 2>> THEN StrV(Text3Hao)
                       ELSE IF q[2] = 1 THEN markers[q[1]] ELSE keys[q[1]]]]

ScanPriceSheets ==
    {ScanPriceSheet(markers, keys) :
        markers \in [ScanRows -> Markers], keys \in [ScanRows -> PumpNumbers]}

DayRows == 1..4

ScanDetailSheet(days) ==
    [max_row |-> 4, max_column |-> 4,
     cells |-> [q \in {<<r, 2>> : r \in DayRows} |-> IntV(days[q[1]])]]

ScanDetailSheets == {ScanDetailSheet(days) : days \in [DayRows -> {1, 2}]}

ScanWorkbook(price, detail) ==
    LET t == Template(0, 0)
    IN  [sheetnames |-> t.sheetnames,
         sheets |-> [n \in DOMAIN t.sheets |->
                        IF n \in PriceSheets THEN price
                        ELSE IF n = DateSheet THEN detail
                        ELSE t.sheets[n]]]

ScanWorkbooks ==
    {ScanWorkbook(price, DetailSheet) : price \in ScanPriceSheets}
    \cup {ScanWorkbook(PriceSheet(0), detail) : detail \in ScanDetailSheets}

ScanInstructions ==
    {[sheet |-> "TiaoJiaQian", section |-> sec, product_name |-> key,
      column |-> <<chD>>, value |-> 31] :
        sec \in Sections, key \in {StrV(Text3), StrV(<<52, chHao>>)}}
    \cup {[sheet |-> DateSheet, date |-> d,
           updates |-> <<ColUpdate(<<chC>>, 41), ColUpdate(<<chD>>, 42)>>] :
             d \in {1, 2, 3}}

InitScan ==
    /\ workbook \in ScanWorkbooks
    /\ before = workbook
    /\ batch = <<>>
    /\ raised = "idle"
    /\ pc_engine = "ready"
    /\ LockIdle
    /\ GuiConstructed
    /\ ParseIdle
    /\ ExtractIdle
    /\ ColumnIdle
    /\ ConfigIdle
    /\ LifeIdle

ApplyScan ==
    /\ pc_engine = "ready"
    /\ \E update \in ScanInstructions :
          LET r == apply_updates(workbook, <<update>>)
          IN  /\ workbook' = r.workbook
              /\ raised' = r.exc
              /\ batch' = <<update>>
    /\ before' = workbook
    /\ pc_engine' = "applied"
    /\ UNCHANGED <<lockVars, guiVars, parseVars, extractVars, lifeVars, columnVars,
                   configVars>>

NextScan == ApplyScan

SpecScan == InitScan /\ [][NextScan]_vars

C25_FirstRowOfTheDay ==
    (Applied /\ IsDateUpdate(batch[1])) =>
        LET rows == DateRows(before.sheets[DateSheet], batch[1])
        IN  /\ raised = "none"
            /\ Modified(DateSheet) =
                  IF rows = {} THEN {} ELSE {<<Min(rows), 3>>, <<Min(rows), 4>>}
            /\ rows # {} =>
                  /\ CellValue(workbook.sheets[DateSheet], Min(rows), 3) = IntV(41)
                  /\ CellValue(workbook.sheets[DateSheet], Min(rows), 4) = IntV(42)
            /\ \A s \in SheetNames(before) \ {DateSheet} : Modified(s) = {}

\* rows 1, 3 and 4 hold day 2 and row 2 holds day 1: only row 3 is written
C25_Witness ==
    /\ Applied
    /\ IsDateUpdate(batch[1])
    /\ batch[1].date = 2
    /\ CellValue(before.sheets[DateSheet], 1, 2) = IntV(2)
    /\ CellValue(before.sheets[DateSheet], 2, 2) = IntV(1)
    /\ CellValue(before.sheets[DateSheet], 3, 2) = IntV(2)
    /\ CellValue(before.sheets[DateSheet], 4, 2) = IntV(2)
    /\ Modified(DateSheet) = {<<3, 3>>, <<3, 4>>}

(***************************************************************************)
(* TableProcessor._process_refuel_details, the 加油明细 table               *)
(* (specification SpecRefuel): the rows pandas read from the table, each   *)
(* with its 结算金额 in hundredths and its 收款方式 as a string.           *)
(***************************************************************************)
\* '充值卡收款' and '电子卡收款', lines 164-165
RechargeCard == <<20805, 20540, 21345, 25910, 27454>>
ElectronicCard == <<30005, 23376, 21345, 25910, 27454>>

\* df[df['收款方式'] == method]['结算金额'].sum()
RECURSIVE settlement_sum(_, _, _)
settlement_sum(rows, method, k) ==
    IF k > Len(rows) THEN 0
    ELSE (IF rows[k].method = method THEN rows[k].amount ELSE 0)
            + settlement_sum(rows, method, k + 1)

_process_refuel_details(rows) ==
    LET customer_discount == settlement_sum(rows, RechargeCard, 1)
        electric_discount == settlement_sum(rows, ElectronicCard, 1)
        p == [customer_discount |-> round_third(customer_discount),
              electric_discount |-> round_third(electric_discount)]
    IN  Extracted(<<PriceUpdate(<<RowUpdate(76, <<chH>>, p.customer_discount),
                                  RowUpdate(78, <<chH>>, p.electric_discount)>>)>>, p)

MaxRefuelRows == 2

RefuelDetails == "JiaYouMingXi"

\* the payment methods of the rows: the two card methods, a card method
\* with a note after it ('充值卡收款（微信）', '电子卡收款（微信）'), and cash
\* ('现金')
WeChatNote == <<65288, 24494, 20449, 65289>>

PaymentMethods ==
    {RechargeCard, ElectronicCard, RechargeCard \o WeChatNote,
     ElectronicCard \o WeChatNote, <<29616, 37329>>}

RefuelRows == [amount : {13145, 100000}, method : PaymentMethods]

InitRefuel ==
    /\ invoice_category = RefuelDetails
    /\ data \in {Table(rows) : rows \in SeqsUpTo(RefuelRows, MaxRefuelRows)}
    /\ result = NotProcessed
    /\ workbook = Template(0, 0)
    /\ before = workbook
    /\ batch = <<>>
    /\ raised = "idle"
    /\ pc_engine = "ready"
    /\ LockIdle
    /\ GuiConstructed
    /\ ParseIdle
    /\ ColumnIdle
    /\ ConfigIdle
    /\ LifeIdle

\* process_table for the category 加油明细, lines 45-46
ProcessRefuelDetails ==
    /\ result = NotProcessed
    /\ result' = _process_refuel_details(data.rows)
    /\ UNCHANGED <<invoice_category, data, engineVars, lockVars, guiVars, parseVars,
                   lifeVars, columnVars, configVars>>

NextRefuel == ProcessRefuelDetails

SpecRefuel == InitRefuel /\ [][NextRefuel]_vars

\* keyword in method
Contains(str, sub) ==
    \E i \in 1..(Len(str) - Len(sub) + 1) : SubSeq(str, i, i + Len(sub) - 1) = sub

\* the sum of the amounts of the rows whose payment method contains the keyword
RECURSIVE containing_sum(_, _, _)
containing_sum(rows, keyword, k) ==
    IF k > Len(rows) THEN 0
    ELSE (IF Contains(rows[k].method, keyword) THEN rows[k].amount ELSE 0)
            + containing_sum(rows, keyword, k + 1)

\* C26: the extractor of the 加油明细 table adds a row to the recharge-card
\* total or to the electronic-card total when its payment method contains
\* the keyword of that total, and emits the two totals, each divided by 3
\* and rounded to 2 decimals, as the cell updates H76 and H78.
C26_SubstringSplit ==
    result # NotProcessed =>
        /\ result.exc = "none"
        /\ result.value.updates =
              <<PriceUpdate(
                   <<RowUpdate(76, <<chH>>,
                               round_third(containing_sum(data.rows, RechargeCard, 1))),
                     RowUpdate(78, <<chH>>,
                               round_third(containing_sum(data.rows, ElectronicCard, 1)))>>)>>

\* what the code does: a row counts when its payment method is the keyword
RefuelSplitIsExact ==
    result # NotProcessed =>
        /\ result.exc = "none"
        /\ Len(result.value.updates) = 1
        /\ Len(result.value.updates[1].updates) = 2
        /\ \A k \in 1..2 :
              IsThirdRounded(result.value.updates[1].updates[k].value,
                             settlement_sum(data.rows,
                                            <<RechargeCard, ElectronicCard>>[k], 1))

(***************************************************************************)
(* The same batch applied twice (specification SpecReapply): the update    *)
(* worker failed after apply_updates, pending_updates was kept             *)
(* (_handle_update_complete, lines 1278-1297), and the next run applies    *)
(* the batch again to the workbook in memory.  The batches are made of the *)
(* Instructions that pass validation and of one date update that also      *)
(* writes the day column.                                                  *)
(***************************************************************************)
DayMovingUpdate ==
    [sheet |-> DateSheet, date |-> 2,
     updates |-> <<ColUpdate(<<chB>>, 5), ColUpdate(<<chC>>, 44)>>]

ReapplyInstructions ==
    {u \in Instructions : validate_update(Template(0, 0), u)} \cup {DayMovingUpdate}

ReapplyBatches == SeqsUpTo(ReapplyInstructions, MaxBatch)

InitReapply == InitEngine

ApplyFirst ==
    /\ pc_engine = "ready"
    /\ \E updates \in ReapplyBatches :
          LET r == apply_updates(workbook, updates)
          IN  /\ workbook' = r.workbook
              /\ raised' = r.exc
              /\ batch' = updates
    /\ before' = workbook
    /\ pc_engine' = "applied"
    /\ UNCHANGED <<lockVars, guiVars, parseVars, extractVars, lifeVars, columnVars,
                   configVars>>

ApplyAgain ==
    /\ pc_engine = "applied"
    /\ raised = "none"
    /\ LET r == apply_updates(workbook, batch)
       IN  /\ workbook' = r.workbook
           /\ raised' = r.exc
    /\ before' = workbook
    /\ pc_engine' = "reapplied"
    /\ UNCHANGED <<batch, lockVars, guiVars, parseVars, extractVars, lifeVars,
                   columnVars, configVars>>

NextReapply == ApplyFirst \/ ApplyAgain

SpecReapply == InitReapply /\ [][NextReapply]_vars

Reapplied == pc_engine = "reapplied"

\* the columns the scans of a sheet read to find the row of an update
LookupColumns(s) ==
    IF s \in PriceSheets THEN {1, 2} ELSE IF s = DateSheet THEN {2} ELSE {}

ColumnsOf(u) ==
    IF "updates" \in DOMAIN u /\ "section" \notin DOMAIN u
    THEN {u.updates[k].column : k \in 1..Len(u.updates)}
    ELSE {u.column}

WritesLookupColumn(u) ==
    \E c \in ColumnsOf(u) : get_column_index(c) + 1 \in LookupColumns(u.sheet)

\* C27 as stated: applying the same valid batch a second time leaves every
\* cell with the value it had after the first application.
C27_IdempotentAsStated ==
    Reapplied => (raised = "none" /\ \A s \in SheetNames(before) : Modified(s) = {})

\* C27: applying a second time a valid batch none of whose instructions
\* writes a column the scans look rows up in (A and B of a price sheet, B
\* of the detail sheet) leaves every cell with the value it had after the
\* first application; the handling-fee cell is cleared and summed anew by
\* each call, so it is not doubled.
C27_Idempotent ==
    (Reapplied /\ \A k \in 1..Len(batch) : ~WritesLookupColumn(batch[k])) =>
        (raised = "none" /\ \A s \in SheetNames(before) : Modified(s) = {})

\* two updates of the batch address E81 of the first price sheet, which
\* holds their sum after the first call and after the second
C27_Witness ==
    /\ Reapplied
    /\ \A k \in 1..Len(batch) : ~WritesLookupColumn(batch[k])
    /\ LET ws == WritesTo(BatchWrites(before, batch, 1), "TiaoJiaQian", AccRow, AccCol)
       IN  /\ Len(ws) = 2
           /\ CellValue(before.sheets["TiaoJiaQian"], AccRow, AccCol) = IntV(SumValues(ws))
           /\ CellValue(workbook.sheets["TiaoJiaQian"], AccRow, AccCol) = IntV(SumValues(ws))

(***************************************************************************)
(* The order in which the extraction workers complete (specification       *)
(* SpecOrder).  Every category the processors dispatch on has a file; the  *)
(* workers of one run complete in any order, each handler extending        *)
(* pending_updates with the worker's instruction list, and one update      *)
(* worker applies the batch once every category is complete.  Amounts are  *)
(* hundredths, so a sum does not depend on the order of its terms.         *)
(***************************************************************************)
chG == 71
chJ == 74
chHash == 35

\* '0#柴油', '92#汽油', '95#汽油'
Diesel0 == <<chDigit0, chHash, 26612, 27833>>
Gasoline92 == <<57, 50, chHash, 27773, 27833>>
Gasoline95 == <<57, 53, chHash, 27773, 27833>>

\* '微信', '支付宝', '现金'
WeChat == <<24494, 20449>>
Alipay == <<25903, 20184, 23453>>
Cash == <<29616, 37329>>

\* fuel_type_mapping.get(product), lines 77-81; <<>> is None
fuel_type_mapping(product) ==
    IF product = Diesel0 THEN <<chA>>
    ELSE IF product = Gasoline92 THEN <<chB>>
    ELSE IF product = Gasoline95 THEN <<chC>>
    ELSE <<>>

\* TableProcessor._process_time_statistics on the rows read from the table:
\* litres that to_numeric could not read are NaN and their row is skipped
RECURSIVE time_statistics_updates(_, _, _)
time_statistics_updates(rows, sheet, k) ==
    IF k > Len(rows) THEN <<>>
    ELSE LET row == rows[k]
             section == fuel_type_mapping(strip(row.product))
         IN  (IF row.litres # NaN /\ section # <<>>
              THEN <<[sheet |-> sheet, section |-> section,
                      product_name |-> row.machine, column |-> <<chD>>,
                      value |-> round_third(row.litres.i)]>>
              ELSE <<>>)
             \o time_statistics_updates(rows, sheet, k + 1)

_process_time_statistics(rows, sheet) ==
    Extracted(time_statistics_updates(rows, sheet, 1), <<>>)

\* the two sums of _process_discounts, lines 121-129
RECURSIVE discount_sum(_, _, _)
discount_sum(rows, gasoline, k) ==
    IF k > Len(rows) THEN 0
    ELSE LET product == strip(rows[k].product)
             discount == IF rows[k].discount # NaN THEN rows[k].discount.i ELSE 0
             is_gasoline == Contains(product, <<57, 50, chHash>>)
                               \/ Contains(product, <<57, 53, chHash>>)
             is_diesel == ~is_gasoline /\ Contains(product, <<chDigit0, chHash>>)
         IN  (IF (gasoline /\ is_gasoline) \/ (~gasoline /\ is_diesel)
              THEN discount ELSE 0)
             + discount_sum(rows, gasoline, k + 1)

_process_discounts(rows) ==
    LET p == [gasoline_discount |-> round_third(discount_sum(rows, TRUE, 1)),
              diesel_discount |-> round_third(discount_sum(rows, FALSE, 1))]
    IN  Extracted(<<DetailUpdate(<<ColUpdate(<<chG>>, p.diesel_discount),
                                   ColUpdate(<<chJ>>, p.gasoline_discount)>>)>>, p)

\* df[mask]['充值金额'].sum() + df[mask]['充值赠送'].sum(), lines 218-223
RECURSIVE recharge_sum(_, _, _)
recharge_sum(rows, online, k) ==
    IF k > Len(rows) THEN 0
    ELSE LET method == rows[k].method
             online_mask == Contains(method, WeChat) \/ Contains(method, Alipay)
             cash_mask == Contains(method, Cash)
         IN  (IF (online /\ online_mask) \/ (~online /\ cash_mask)
              THEN rows[k].amount + rows[k].gift ELSE 0)
             + recharge_sum(rows, online, k + 1)

\* Variant: the cash total goes to row 86, the cell of 通联.
_process_recharge_details_row_86(rows) ==
    LET p == [online_recharge |-> round_third(recharge_sum(rows, TRUE, 1)),
              cash_recharge |-> round_third(recharge_sum(rows, FALSE, 1))]
    IN  Extracted(<<PriceUpdate(<<RowUpdate(73, <<chC>>, p.online_recharge),
                                  RowUpdate(86, <<chC>>, p.cash_recharge)>>)>>, p)

_process_recharge_details(rows) ==
    LET p == [online_recharge |-> round_third(recharge_sum(rows, TRUE, 1)),
              cash_recharge |-> round_third(recharge_sum(rows, FALSE, 1))]
    IN  Extracted(<<PriceUpdate(<<RowUpdate(73, <<chC>>, p.online_recharge),
                                  RowUpdate(68, <<chC>>, p.cash_recharge)>>)>>, p)

TimeStatistics == "YouPinShiJianTongJi"
TimeStatisticsAfter == "YouPinShiJianTongJiTiaoJiaHou"
Discounts == "YouPinYouHui"
RechargeDetails == "ChongZhiMingXi"

\* process_table, lines 40-54
process_table(rows, cat) ==
    IF cat = TimeStatistics THEN _process_time_statistics(rows, "TiaoJiaQian")
    ELSE IF cat = TimeStatisticsAfter THEN _process_time_statistics(rows, "TiaoJiaHou")
    ELSE IF cat = Discounts THEN _process_discounts(rows)
    ELSE IF cat = RefuelDetails THEN _process_refuel_details(rows)
    ELSE IF cat = TongLian THEN _process_tonglian(rows)
    ELSE IF cat = RechargeDetails THEN _process_recharge_details(rows)
    ELSE Raised_("ValueError")

ProcessedTables ==
    {TimeStatistics, TimeStatisticsAfter, Discounts, RefuelDetails, TongLian,
     RechargeDetails}

ShippedCategories == ImageCategories \cup ProcessedTables

\* the order of the dispatch chains, images first
CategoryOrder ==
    <<"HuoCheBang", "DiDiJiaYou", "GuoTong1", "GuoTong2", "TuanYou", "POS",
      "ChaoShiXiaoShouShouRu", "DouYin", TimeStatistics, TimeStatisticsAfter,
      Discounts, RefuelDetails, TongLian, RechargeDetails>>

\* the amounts read from the image of a category
Reading(cat) ==
    [key \in Required(cat) |->
        IF key \in {"FuWuFei", "TongDaoFeiHuiZong"} THEN 160
        ELSE IF key \in {"YouPinYuShouJinE", "DingDanShiShouHeJi", "DingDanJinE"} THEN 900
        ELSE IF key \in {"YouPinYingShouJinE", "YuJiShouRuHeJi"} THEN 600
        ELSE IF key = "JiaYouJinEHuiZong" THEN 3000
        ELSE IF key = "TuiKuanDingDanJinE" THEN 30
        ELSE 1200]

\* the rows read from the table of a category
TableOf(cat) ==
    IF cat \in {TimeStatistics, TimeStatisticsAfter}
    THEN <<[machine |-> IntV(3), product |-> Diesel0, litres |-> FloatV(3000)],
           [machine |-> IntV(4), product |-> Diesel0 \o <<chSpace>>,
            litres |-> FloatV(1500)],
           [machine |-> IntV(3), product |-> Gasoline92, litres |-> FloatV(600)],
           [machine |-> IntV(3), product |-> Gasoline95, litres |-> FloatV(900)],
           [machine |-> IntV(4), product |-> Gasoline92, litres |-> NaN]>>
    ELSE IF cat = Discounts
    THEN <<[product |-> Diesel0, discount |-> FloatV(300)],
           [product |-> Gasoline92, discount |-> FloatV(150)],
           [product |-> Gasoline95, discount |-> NaN],
           [product |-> Gasoline95, discount |-> FloatV(60)]>>
    ELSE IF cat = RefuelDetails
    THEN <<[amount |-> 1200, method |-> RechargeCard],
           [amount |-> 450, method |-> ElectronicCard]>>
    ELSE IF cat = TongLian
    THEN <<[amount |-> 13145, direction |-> "ShouRu"],
           [amount |-> 100000, direction |-> "ZhiChu"]>>
    ELSE <<[amount |-> 3000, gift |-> 300, method |-> WeChat],
           [amount |-> 600, gift |-> 0, method |-> Cash],
           [amount |-> 900, gift |-> 90, method |-> Alipay]>>

\* result['updates'] of the worker of a category
UpdatesOf(cat) ==
    IF cat \in ImageCategories
    THEN dispatch(Reading(cat), Reading(cat), cat).value.updates
    ELSE process_table(TableOf(cat), cat).value.updates

MaxCategories == 2

\* the template the extractors are written for: the detail sheet is wide
\* enough for column AZ
WideDetailSheet == [max_row |-> 4, max_column |-> 52, cells |-> DateCells]

OrderTemplate(fee) ==
    [Template(fee, 0) EXCEPT !.sheets["YouPinYouHuiMingXi2"] = WideDetailSheet]

OrderTemplates == {OrderTemplate(0), OrderTemplate(7), Template(7, 0)}

InitOrder ==
    /\ workbook \in OrderTemplates
    /\ before = workbook
    /\ batch = <<>>
    /\ raised = "idle"
    /\ pc_engine = "ready"
    /\ uploaded_files \in {S \in SUBSET ShippedCategories :
                              Cardinality(S) \in 1..MaxCategories}
    /\ processing_status = [cat \in uploaded_files |-> Processing]
    /\ processing_results = <<>>
    /\ pending_updates = <<>>
    /\ is_processing = TRUE
    /\ timer_active = FALSE
    /\ running = {}
    /\ update_workers = {}
    /\ run = 1
    /\ started_updates = <<>>
    /\ LockIdle
    /\ ParseIdle
    /\ ExtractIdle
    /\ ColumnIdle
    /\ ConfigIdle
    /\ LifeIdle

\* _handle_processing_complete and _handle_table_processing_complete, lines
\* 1182-1223: pending_updates.extend(result['updates'])
WorkerCompletes(cat) ==
    /\ pc_engine = "ready"
    /\ processing_status[cat] = Processing
    /\ pending_updates' = pending_updates \o UpdatesOf(cat)
    /\ processing_status' = [processing_status EXCEPT ![cat] = Complete]
    /\ UNCHANGED <<uploaded_files, processing_results, is_processing, timer_active,
                   running, update_workers, run, started_updates,
                   engineVars, lockVars, parseVars, extractVars, lifeVars,
                   columnVars, configVars>>

\* _check_and_apply_updates finds every category complete and the update
\* worker applies the pending batch
ApplyPending ==
    /\ pc_engine = "ready"
    /\ \A cat \in uploaded_files : processing_status[cat] = Complete
    /\ pending_updates # <<>>
    /\ LET r == apply_updates(workbook, pending_updates)
       IN  /\ workbook' = r.workbook
           /\ raised' = r.exc
    /\ batch' = pending_updates
    /\ before' = workbook
    /\ pc_engine' = "applied"
    /\ UNCHANGED <<guiVars, lockVars, parseVars, extractVars, lifeVars,
                   columnVars, configVars>>

NextOrder ==
    \/ \E cat \in uploaded_files : WorkerCompletes(cat)
    \/ ApplyPending

SpecOrder == InitOrder /\ [][NextOrder]_vars

\* the batch of a run whose workers complete in the order of CategoryOrder
RECURSIVE CanonicalBatch(_, _)
CanonicalBatch(cats, k) ==
    IF k > Len(CategoryOrder) THEN <<>>
    ELSE (IF CategoryOrder[k] \in cats THEN UpdatesOf(CategoryOrder[k]) ELSE <<>>)
         \o CanonicalBatch(cats, k + 1)

\* the cells the instructions of a category address in the workbook
Targets(wb, cat) == Addressed(BatchWrites(wb, UpdatesOf(cat), 1))

AccWritesNameE(updates) ==
    \A k \in 1..Len(updates) :
        IsRowUpdate(updates[k]) =>
            \A j \in 1..Len(updates[k].updates) :
                (/\ updates[k].updates[j].row = AccRow
                 /\ get_column_index(updates[k].updates[j].column) + 1 = AccCol)
                    => updates[k].updates[j].column = AccColumn

\* C29: when a batch that returned holds row-81/column-E updates for both
\* price sheets, the cell E81 of each sheet ends with the sum of the values
\* addressed to that sheet only.
C29_RunningSumIsPerSheet ==
    LET ws == BatchWrites(before, batch, 1)
    IN  (/\ Applied
         /\ raised = "none"
         /\ AccWritesNameE(batch)
         /\ \A s \in PriceSheets : WritesTo(ws, s, AccRow, AccCol) # <<>>)
            => \A s \in PriceSheets :
                  CellValue(workbook.sheets[s], AccRow, AccCol)
                     = IntV(SumValues(WritesTo(ws, s, AccRow, AccCol)))

(***************************************************************************)
(* The two steps of an update worker (specification SpecWorkers).  The     *)
(* threads are ExcelUpdateWorker threads on one engine: run (main_window   *)
(* lines 183-193) calls apply_updates and then save_workbook, each of      *)
(* which takes ExcelUpdater._global_lock for its own body only.  The       *)
(* window starts a worker whenever a run completes with pending updates,   *)
(* whether or not an earlier worker is still alive.  open_workbook         *)
(* (excel_updater lines 37-42) takes no lock.  update_workers keeps, for   *)
(* each worker, its batch, the document its apply_updates produced and the *)
(* document its save_workbook wrote.                                       *)
(***************************************************************************)
WorkerBatches ==
    { <<[sheet |-> "TiaoJiaQian", updates |-> <<RowUpdate(AccRow, <<chE>>, 160)>>]>>,
      <<[sheet |-> "TiaoJiaQian", updates |-> <<RowUpdate(90, <<chC>>, 21)>>]>>,
      <<[sheet |-> "YouPinYouHuiMingXi2", date |-> 2,
         updates |-> <<ColUpdate(<<chC>>, 41)>>],
        [sheet |-> "WuCiBiao", updates |-> <<RowUpdate(90, <<chC>>, 24)>>]>> }

NotStarted(wb) ==
    [pending_updates |-> <<>>, produced |-> wb, persisted |-> wb, exc |-> "idle"]

At(op, at) == [op |-> op, at |-> at, on |-> "table_processor"]

InitWorkers ==
    /\ files = [path \in Paths |-> IF path = "output.xlsx" THEN Template(7, 0)
                                   ELSE Template(0, 7)]
    /\ output_path = "output.xlsx"
    /\ workbook = ExcelUpdater(files, output_path).workbook
    /\ before = workbook
    /\ batch = <<>>
    /\ raised = "idle"
    /\ pc_engine = "ready"
    /\ calls = <<>>
    /\ lock_owner = 0
    /\ lock_count = 0
    /\ pc_thread = [t \in Threads |-> Idle]
    /\ handle = <<>>
    /\ loads = 0
    /\ uploaded_files = {}
    /\ processing_status = <<>>
    /\ processing_results = <<>>
    /\ pending_updates = <<>>
    /\ is_processing = FALSE
    /\ timer_active = FALSE
    /\ running = {}
    /\ update_workers = [t \in Threads |-> NotStarted(workbook)]
    /\ run = 0
    /\ started_updates = <<>>
    /\ ParseIdle
    /\ ExtractIdle
    /\ ColumnIdle
    /\ ConfigIdle

otherThanWorkers ==
    <<uploaded_files, processing_status, processing_results, pending_updates,
      is_processing, timer_active, running, run, started_updates, handle, calls,
      parseVars, extractVars, columnVars, configVars>>

\* _apply_all_updates, lines 1252-1276: a worker is created with the pending
\* batch and started; run reaches the with statement of apply_updates
StartWorker(t) ==
    /\ pc_thread[t] = Idle
    /\ \E updates \in WorkerBatches :
          update_workers' =
             [update_workers EXCEPT ![t] = [NotStarted(workbook) EXCEPT
                                               !.pending_updates = updates]]
    /\ pc_thread' = [pc_thread EXCEPT ![t] = At("apply_updates", "lock")]
    /\ UNCHANGED <<lock_owner, lock_count, loads, engineVars, files, output_path,
                   otherThanWorkers>>

\* the body of apply_updates and the release of the lock.  When the call
\* raised, run goes to its except clause and emits finished(False, ...);
\* otherwise it reaches the with statement of save_workbook.
WorkerApplies(t) ==
    /\ pc_thread[t] = At("apply_updates", "body")
    /\ LET r == apply_updates(workbook, update_workers[t].pending_updates)
       IN  /\ workbook' = r.workbook
           /\ raised' = r.exc
           /\ update_workers' = [update_workers EXCEPT ![t].produced = r.workbook,
                                                       ![t].exc = r.exc]
           /\ pc_thread' = [pc_thread EXCEPT
                               ![t] = IF r.exc = "none"
                                      THEN At("save_workbook", "lock")
                                      ELSE At("run", "failed")]
    /\ before' = workbook
    /\ batch' = update_workers[t].pending_updates
    /\ pc_engine' = "applied"
    /\ lock_count' = lock_count - 1
    /\ lock_owner' = IF lock_count = 1 THEN 0 ELSE lock_owner
    /\ UNCHANGED <<loads, files, output_path, otherThanWorkers>>

\* the body of save_workbook and the release of the lock; run emits
\* finished(True, "")
WorkerSaves(t) ==
    /\ pc_thread[t] = At("save_workbook", "body")
    /\ files' = save_workbook(Self, files)
    /\ update_workers' = [update_workers EXCEPT ![t].persisted = workbook]
    /\ pc_thread' = [pc_thread EXCEPT ![t] = At("run", "finished")]
    /\ pc_engine' = "saved"
    /\ lock_count' = lock_count - 1
    /\ lock_owner' = IF lock_count = 1 THEN 0 ELSE lock_owner
    /\ UNCHANGED <<workbook, before, batch, raised, loads, output_path,
                   otherThanWorkers>>

\* another thread calls open_workbook on the engine: no lock is taken
OpenWorkbook ==
    /\ loads < MaxLoads
    /\ \E path \in Paths :
          LET self == open_workbook(Self, files, path)
          IN  /\ workbook' = self.workbook
              /\ output_path' = self.output_path
    /\ loads' = loads + 1
    /\ pc_engine' = "opened"
    /\ UNCHANGED <<before, batch, raised, files, lock_owner, lock_count, pc_thread,
                   update_workers, otherThanWorkers>>

NextWorkers ==
    \/ \E t \in Threads :
          \/ StartWorker(t)
          \/ Acquire(t)
          \/ WorkerApplies(t)
          \/ WorkerSaves(t)
    \/ OpenWorkbook

SpecWorkers == InitWorkers /\ [][NextWorkers]_vars

Finished(t) == pc_thread[t] = At("run", "finished")

\* C30: the document an update worker's save_workbook wrote is the document
\* its own apply_updates produced.
C30_SavedIsOwnResult ==
    \A t \in Threads :
        Finished(t) => update_workers[t].persisted = update_workers[t].produced

\* what does hold: each body runs under the lock, so no other worker is
\* inside apply_updates or save_workbook while a worker is inside one
WorkersExcludeEachOther ==
    \A t1 \in Threads : \A t2 \in Threads \ {t1} :
        ~(pc_thread[t1].at = "body" /\ pc_thread[t2].at = "body")

=============================================================================
